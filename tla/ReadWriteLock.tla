--------------------------- MODULE ReadWriteLock ----------------------------
(***************************************************************************)
(* QReadWriteLock, not recursive: src/corelib/thread/qreadwritelock.h and  *)
(* qreadwritelock.cpp.                                                     *)
(*                                                                         *)
(* The lock is one atomic pointer.  While nobody waits it is no pointer at *)
(* all but says "unlocked", "n readers" or "a writer".  A thread that has  *)
(* to wait swaps in an object from a free list, with the counts, a mutex   *)
(* and two condition variables; the unlock that finds nobody waiting swaps *)
(* it out and puts it back on the free list, where it may be taken again   *)
(* while other threads still look at it.                                   *)
(*                                                                         *)
(* A load and a compare-and-swap are a step each, and so is a critical     *)
(* section of an object's mutex.  The fast paths of the header and the     *)
(* first turn of the loops in the source are the same steps.               *)
(***************************************************************************)
EXTENDS Integers, FiniteSets

CONSTANTS
  Thread,  \* the callers
  Object   \* the free list's objects

ASSUME RWAssumption == IsFiniteSet(Thread)

VARIABLES
  d_ptr,    \* the atomic pointer
  object,   \* the counts of every QReadWriteLockPrivate
  free,     \* objects on the free list
  pc,       \* where a thread is
  mode,     \* mode[t]: what t locks, or has locked, the lock for
  deadline, \* deadline[t]: of a call that locks
  d,        \* d[t]: the pointer as t knows it
  val       \* val[t]: the set of the object that t has allocated, if any

vars == <<d_ptr, object, free, pc, mode, deadline, d, val>>

Mode == {"read", "write"}

\* The four shapes of the pointer.
Null == <<"null", 0>>
Reading(n) == <<"read", n>>
Writing == <<"write", 0>>
At(p) == <<"object", p>>
Pointer == {Null, Writing} \cup {Reading(n) : n \in 1..Cardinality(Thread)}
                           \cup {At(p) : p \in Object}

Counts == [readers : Nat, writers : 0..1, waitingReaders : Nat, waitingWriters : Nat]
NoCounts == [readers |-> 0, writers |-> 0, waitingReaders |-> 0, waitingWriters |-> 0]

\* "lock": in the loop of a locking call; "swap": about to install an object;
\* "mutex": about to enter the object's mutex; "wait": on a condition variable;
\* "awake": back from it; "held": has the lock; "unlock": in the unlocking loop.
RWTypeOK ==
  /\ d_ptr \in Pointer
  /\ object \in [Object -> Counts]
  /\ free \subseteq Object
  /\ pc \in [Thread -> {"idle", "lock", "swap", "mutex", "wait", "awake", "held", "unlock"}]
  /\ mode \in [Thread -> Mode]
  /\ deadline \in [Thread -> {"forever", "running", "expired"}]
  /\ d \in [Thread -> Pointer]
  /\ val \in [Thread -> SUBSET Object]

Init ==
  /\ d_ptr = Null
  /\ object = [p \in Object |-> NoCounts]
  /\ free = Object
  /\ pc = [t \in Thread |-> "idle"]
  /\ mode = [t \in Thread |-> "read"]
  /\ deadline = [t \in Thread |-> "forever"]
  /\ d = [t \in Thread |-> Null]
  /\ val = [t \in Thread |-> {}]

-----------------------------------------------------------------------------
\* lockForRead, lockForWrite and their tryLock forms.  A tryLock without
\* timeout has an expired deadline from the start.

Lock(t, m, when) ==
  /\ pc[t] = "idle"
  /\ pc' = [pc EXCEPT ![t] = "lock"]
  /\ mode' = [mode EXCEPT ![t] = m]
  /\ deadline' = [deadline EXCEPT ![t] = when]
  /\ d' = [d EXCEPT ![t] = d_ptr]
  /\ UNCHANGED <<d_ptr, object, free, val>>

\* The call returns true, or false; mode[t] of a thread outside is "read".
Succeed(t) ==
  /\ pc' = [pc EXCEPT ![t] = "held"]
  /\ deadline' = [deadline EXCEPT ![t] = "forever"]
  /\ d' = [d EXCEPT ![t] = Null]
  /\ UNCHANGED mode

Leave(t) ==
  /\ mode' = [mode EXCEPT ![t] = "read"]
  /\ deadline' = [deadline EXCEPT ![t] = "forever"]
  /\ d' = [d EXCEPT ![t] = Null]

\* A swap that fails loads the pointer.
Reload(t) ==
  /\ d' = [d EXCEPT ![t] = d_ptr]
  /\ UNCHANGED <<d_ptr, object, free, pc, mode, deadline, val>>

\* The swaps that lock an uncontended lock: from unlocked, and from n readers
\* to one more.
TryLock(t) ==
  /\ pc[t] = "lock"
  /\ d[t] = Null \/ (mode[t] = "read" /\ d[t][1] = "read")
  /\ \/ /\ d_ptr = d[t]
        /\ d_ptr' = IF mode[t] = "write" THEN Writing ELSE Reading(d[t][2] + 1)
        /\ Succeed(t)
        /\ UNCHANGED <<object, free, val>>
     \/ d_ptr # d[t] /\ Reload(t)

\* The lock is held without an object, and the thread has to wait.
MustWait(t) ==
  /\ pc[t] = "lock"
  /\ d[t] = Writing \/ (mode[t] = "write" /\ d[t][1] = "read")

GiveUp(t) ==
  /\ MustWait(t)
  /\ deadline[t] # "forever"
  /\ pc' = [pc EXCEPT ![t] = "idle"]
  /\ Leave(t)
  /\ UNCHANGED <<d_ptr, object, free, val>>

\* Fault: d >> 4 is taken for the number of readers.
HeldLess(q) ==
  [NoCounts EXCEPT !.writers = IF q = Writing THEN 1 ELSE 0,
                   !.readers = IF q[1] = "read" THEN q[2] - 1 ELSE 0]

\* The counts of an object that stands for the pointer q.
Held(q) ==
  [readers |-> IF q[1] = "read" THEN q[2] ELSE 0, writers |-> IF q = Writing THEN 1 ELSE 0,
   waitingReaders |-> 0, waitingWriters |-> 0]

Allocate(t) ==
  /\ MustWait(t)
  /\ deadline[t] # "expired"
  /\ \E p \in free :
       /\ free' = free \ {p}
       /\ object' = [object EXCEPT ![p] = Held(d[t])]
       /\ val' = [val EXCEPT ![t] = {p}]
  /\ pc' = [pc EXCEPT ![t] = "swap"]
  /\ UNCHANGED <<d_ptr, mode, deadline, d>>

Install(t) ==
  /\ pc[t] = "swap"
  /\ pc' = [pc EXCEPT ![t] = "lock"]
  /\ val' = [val EXCEPT ![t] = {}]
  /\ \E p \in val[t] :
       \/ /\ d_ptr = d[t]
          /\ d_ptr' = At(p)
          /\ d' = [d EXCEPT ![t] = At(p)]
          /\ UNCHANGED <<object, free>>
       \/ /\ d_ptr # d[t]
          /\ object' = [object EXCEPT ![p] = NoCounts]
          /\ free' = free \cup {p}
          /\ d' = [d EXCEPT ![t] = d_ptr]
          /\ UNCHANGED d_ptr
  /\ UNCHANGED <<mode, deadline>>

\* With an object in d the pointer is loaded once more.
Load(t) ==
  /\ pc[t] = "lock" /\ d[t][1] = "object"
  /\ d' = [d EXCEPT ![t] = d_ptr]
  /\ pc' = [pc EXCEPT ![t] = IF d_ptr[1] = "object" THEN "mutex" ELSE "lock"]
  /\ UNCHANGED <<d_ptr, object, free, mode, deadline, val>>

Sleepers(p, m) == {t \in Thread : pc[t] = "wait" /\ d[t] = At(p) /\ mode[t] = m}

\* pc when t goes to l and the threads of S are notified.
Notify(S, t, l) == [x \in Thread |-> IF x = t THEN l ELSE IF x \in S THEN "awake" ELSE pc[x]]

\* Fault: a reader does not look at the writers that wait.
BlockedByWriter(c, m) == c.writers > 0 \/ (m = "write" /\ c.readers > 0)

Blocked(c, m) ==
  \/ c.writers > 0
  \/ m = "read" /\ c.waitingWriters > 0
  \/ m = "write" /\ c.readers > 0

\* The readers that a writer which gives up wakes.
TimedOut(p, c, t) ==
  IF mode[t] = "write" /\ c.waitingWriters = 0 /\ c.writers = 0
  THEN Sleepers(p, "read") ELSE {}

\* One turn of the loop of QReadWriteLockPrivate::lockForRead or lockForWrite,
\* under the mutex of p, whose counts are c.
TakeOrWait(t, p, c) ==
  /\ \/ /\ ~Blocked(c, mode[t])
        /\ object' = [object EXCEPT ![p] =
             IF mode[t] = "read" THEN [c EXCEPT !.readers = @ + 1]
             ELSE [c EXCEPT !.writers = 1]]
        /\ Succeed(t)
     \/ /\ Blocked(c, mode[t])
        /\ deadline[t] # "forever"
        /\ object' = [object EXCEPT ![p] = c]
        /\ pc' = Notify(TimedOut(p, c, t), t, "idle")
        /\ Leave(t)
     \/ /\ Blocked(c, mode[t])
        /\ deadline[t] # "expired"
        /\ object' = [object EXCEPT ![p] =
             IF mode[t] = "read" THEN [c EXCEPT !.waitingReaders = @ + 1]
             ELSE [c EXCEPT !.waitingWriters = @ + 1]]
        /\ pc' = [pc EXCEPT ![t] = "wait"]
        /\ UNCHANGED <<mode, deadline, d>>
  /\ UNCHANGED <<d_ptr, free, val>>

\* Fault: the pointer is not compared again under the mutex.
EnterUnchecked(t) ==
  /\ pc[t] = "mutex"
  /\ \E p \in Object : d[t] = At(p) /\ TakeOrWait(t, p, object[p])

\* The mutex, and under it the comparison with the pointer.
Enter(t) ==
  /\ pc[t] = "mutex"
  /\ \/ \E p \in Object : d[t] = At(p) /\ d_ptr = At(p) /\ TakeOrWait(t, p, object[p])
     \/ /\ d_ptr # d[t]
        /\ d' = [d EXCEPT ![t] = d_ptr]
        /\ pc' = [pc EXCEPT ![t] = "lock"]
        /\ UNCHANGED <<d_ptr, object, free, mode, deadline, val>>

\* A wait ends by its deadline, or without any reason.
TimeOut(t) ==
  /\ pc[t] = "wait" /\ deadline[t] = "running"
  /\ pc' = [pc EXCEPT ![t] = "awake"]
  /\ deadline' = [deadline EXCEPT ![t] = "expired"]
  /\ UNCHANGED <<d_ptr, object, free, mode, d, val>>

SpuriousWake(t) ==
  /\ pc[t] = "wait"
  /\ pc' = [pc EXCEPT ![t] = "awake"]
  /\ UNCHANGED <<d_ptr, object, free, mode, deadline, d, val>>

\* The wait returns with the mutex.
Resume(t) ==
  /\ pc[t] = "awake"
  /\ \E p \in Object :
       /\ d[t] = At(p)
       /\ TakeOrWait(t, p, IF mode[t] = "read"
                           THEN [object[p] EXCEPT !.waitingReaders = @ - 1]
                           ELSE [object[p] EXCEPT !.waitingWriters = @ - 1])

-----------------------------------------------------------------------------
\* unlock

Unlock(t) ==
  /\ pc[t] = "held"
  /\ pc' = [pc EXCEPT ![t] = "unlock"]
  /\ d' = [d EXCEPT ![t] = d_ptr]
  /\ UNCHANGED <<d_ptr, object, free, mode, deadline, val>>

\* The swaps that unlock a lock without an object.
UnlockSwap(t) ==
  /\ pc[t] = "unlock" /\ d[t][1] \in {"read", "write"}
  /\ \/ /\ d_ptr = d[t]
        /\ d_ptr' = IF d[t][1] = "read" /\ d[t][2] > 1 THEN Reading(d[t][2] - 1) ELSE Null
        /\ pc' = [pc EXCEPT ![t] = "idle"]
        /\ Leave(t)
        /\ UNCHANGED <<object, free, val>>
     \/ d_ptr # d[t] /\ Reload(t)

\* QReadWriteLockPrivate::unlock wakes a writer, or else all readers.
Woken(p, c) ==
  IF c.waitingWriters = 0 THEN {Sleepers(p, "read")}
  ELSE IF Sleepers(p, "write") = {} THEN {{}} ELSE {{w} : w \in Sleepers(p, "write")}

\* The critical section of the unlock: the last holder wakes those who wait, or
\* gives the object back.
UnlockObject(t) ==
  /\ pc[t] = "unlock"
  /\ \E p \in Object :
       LET c == IF object[p].writers > 0 THEN [object[p] EXCEPT !.writers = 0]
                ELSE [object[p] EXCEPT !.readers = @ - 1]
       IN  /\ d[t] = At(p)
           /\ object' = [object EXCEPT ![p] = c]
           /\ \/ /\ c.readers > 0
                 /\ pc' = [pc EXCEPT ![t] = "idle"]
                 /\ UNCHANGED <<d_ptr, free>>
              \/ /\ c.readers = 0
                 /\ c.waitingReaders > 0 \/ c.waitingWriters > 0
                 /\ \E S \in Woken(p, c) : pc' = Notify(S, t, "idle")
                 /\ UNCHANGED <<d_ptr, free>>
              \/ /\ c = NoCounts
                 /\ d_ptr' = Null
                 /\ free' = free \cup {p}
                 /\ pc' = [pc EXCEPT ![t] = "idle"]
  /\ Leave(t)
  /\ UNCHANGED val

-----------------------------------------------------------------------------
Step(t) ==
  \/ TryLock(t) \/ Allocate(t) \/ Install(t) \/ Load(t) \/ Enter(t) \/ Resume(t)
  \/ Unlock(t) \/ UnlockSwap(t) \/ UnlockObject(t)

Next ==
  \E t \in Thread :
    \/ \E m \in Mode, when \in {"forever", "running", "expired"} : Lock(t, m, when)
    \/ Step(t) \/ GiveUp(t) \/ TimeOut(t) \/ SpuriousWake(t)

Spec == Init /\ [][Next]_vars

\* Threads in a call are scheduled, holders unlock; calls and timeouts are not
\* due.
Fairness == \A t \in Thread : WF_vars(Step(t))

FairSpec == Spec /\ Fairness

-----------------------------------------------------------------------------
\* Properties

Holders(m) == {t \in Thread : pc[t] \in {"held", "unlock"} /\ mode[t] = m}
Waiters(p, m) == {t \in Thread : pc[t] \in {"wait", "awake"} /\ d[t] = At(p) /\ mode[t] = m}

\* The counts of the lock's object, if that is p.
Standing(p) ==
  [readers |-> Cardinality(Holders("read")), writers |-> Cardinality(Holders("write")),
   waitingReaders |-> Cardinality(Waiters(p, "read")),
   waitingWriters |-> Cardinality(Waiters(p, "write"))]

\* The lock says who holds it and who waits, and those wait on its object.
PointerStands ==
  LET r == Cardinality(Holders("read"))
      w == Cardinality(Holders("write"))
  IN  \/ d_ptr = Null /\ r = 0 /\ w = 0
      \/ d_ptr = Writing /\ r = 0 /\ w = 1
      \/ d_ptr[1] = "read" /\ r = d_ptr[2] /\ w = 0
      \/ \E p \in Object : d_ptr = At(p) /\ object[p] = Standing(p)

WaitersAreHere == \A t \in Thread : pc[t] \in {"wait", "awake"} => d[t] = d_ptr

PointerAgrees == PointerStands /\ WaitersAreHere

\* An object is on the free list, installed in the lock, or in the hands of one
\* thread that is about to install it.
ObjectsAreKept ==
  LET used == {p \in Object : d_ptr = At(p)}
      held == UNION {val[t] : t \in Thread}
  IN  /\ Object \ free = used \cup held
      /\ used \cap held = {}
      /\ \A s, t \in Thread : s # t => val[s] \cap val[t] = {}
      /\ \A p \in free : object[p] = NoCounts
      /\ \A p \in used : object[p] # NoCounts

\* Whichever of its shapes the lock has, and whichever threads are changing it,
\* it says who holds it and who waits; nobody waits on an object that the lock
\* has left.  No object is lost or shared: what is on the free list is clear,
\* as allocate() and release() assert, and the installed one has a holder or a
\* waiter, so it will be given back.
CountsAgree == PointerAgrees /\ ObjectsAreKept

\* No wakeup is lost: a thread sleeps only while it has reason to.  A reader
\* sleeps because of a writer that holds the lock or waits; a writer because of
\* a holder, or because another writer is about to take the lock.
NobodySleepsBesideAFreeLock ==
  \A p \in Object :
    /\ Sleepers(p, "read") # {} => object[p].writers > 0 \/ object[p].waitingWriters > 0
    /\ Sleepers(p, "write") # {} =>
         \/ object[p].writers > 0 \/ object[p].readers > 0
         \/ Waiters(p, "write") # Sleepers(p, "write")

\* The lock knows who holds it, who waits and where, and forgets no sleeper.
LockIsKept == RWTypeOK /\ CountsAgree /\ NobodySleepsBesideAFreeLock

\* "readers attempting to obtain a lock will not succeed if there is a blocked
\* writer waiting": readers, however many come and go, do not keep writers out.
\* When one waits, a writer gets the lock.
SomeWriterWaits ==
  \E t \in Thread : mode[t] = "write" /\ pc[t] \in {"wait", "awake"} /\ deadline[t] = "forever"
WritersGetIn == SomeWriterWaits ~> Holders("write") # {}

\* The lock is a lock: readers or one writer.
Abstract == INSTANCE ReadersOrWriter WITH readers <- Holders("read"), writers <- Holders("write")
IsReadersOrWriter == Abstract!Spec
=============================================================================
