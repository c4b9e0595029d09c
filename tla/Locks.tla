-------------------------------- MODULE Locks --------------------------------
(***************************************************************************)
(* The locks of the core library side by side: the read-write lock, a      *)
(* recursive mutex, a wait condition with its mutex, and a latch.  They    *)
(* share nothing but their threads, so every behaviour is one of its       *)
(* "subject", while the others stay as they began.  One QMutex serves as   *)
(* that below the recursive mutex and as that beside the wait condition.   *)
(***************************************************************************)
EXTENDS ReadWriteLock

CONSTANTS
  Nobody,              \* no owner
  MaxDepth,            \* RecursiveMutex
  Consumer, Producer,  \* WaitCondition: which threads take and which add
  MaxItems,
  Expected             \* Latch

VARIABLES
  subject,
  mutex, lock, timed,
  owner, count, at, depth,
  mu, waiters, wakeups, place, limit, items,
  counter, lpc, current, passed

R == INSTANCE RecursiveMutex WITH d_ptr <- mutex
W == INSTANCE WaitCondition WITH d_ptr <- mutex, pc <- place, deadline <- limit
L == INSTANCE Latch WITH pc <- lpc

mvars == <<mutex, lock, timed>>
rvars == <<owner, count, at, depth>>
wvars == <<mu, waiters, wakeups, place, limit, items>>
lvars == <<counter, lpc, current, passed>>

AnyInit ==
  /\ subject \in {"rwlock", "recursive", "condition", "latch"}
  /\ Init /\ R!Init /\ W!Init /\ L!Init

AnyStep(name, action) == subject = name /\ action /\ UNCHANGED subject

AnyNext ==
  \/ AnyStep("rwlock", Next) /\ UNCHANGED <<mvars, rvars, wvars, lvars>>
  \/ AnyStep("recursive", R!Next) /\ UNCHANGED <<vars, wvars, lvars>>
  \/ AnyStep("condition", W!Next) /\ UNCHANGED <<vars, rvars, lvars>>
  \/ AnyStep("latch", L!Next) /\ UNCHANGED <<vars, mvars, rvars, wvars>>

AnyFairSpec ==
  /\ AnyInit
  /\ [][AnyNext]_<<subject, vars, mvars, rvars, wvars, lvars>>
  /\ Fairness

-----------------------------------------------------------------------------
\* The owner of a recursive mutex is inside, alone, and forgets no sleeper
\* (qmutex.cpp); a latch opens at zero and for all (qlatch.cpp).
MutexAndLatchAreSound == R!OwnerIsInside /\ L!LatchIsSound

\* No wakeup of a wait condition is lost (qwaitcondition_unix.cpp).
WakesAreDue == W!WakesAreDue
=============================================================================
