---------------------------- MODULE WaitCondition ----------------------------
(***************************************************************************)
(* QWaitCondition on POSIX threads, composed with the QMutex it is used    *)
(* with: src/corelib/thread/qwaitcondition_unix.cpp and Mutex.             *)
(*                                                                         *)
(* Consumers lock the mutex, wait while there is no item, take one and     *)
(* unlock; producers lock it, add an item, unlock it, and wake one         *)
(* consumer or all before or after that.  The critical sections of the     *)
(* condition's own pthread mutex are a step each, but for that of wait(),  *)
(* in the middle of which the QMutex is unlocked.                          *)
(***************************************************************************)
EXTENDS Mutex, Naturals, FiniteSets

CONSTANTS
  Consumer,
  Producer,
  Nobody,    \* the pthread mutex is free
  MaxItems   \* bound: items there at a time

VARIABLES
  mu,        \* QWaitConditionPrivate::mutex: who has it between two steps
  waiters,   \* QWaitConditionPrivate::waiters
  wakeups,   \* QWaitConditionPrivate::wakeups
  pc,        \* where a thread stands outside the QMutex
  deadline,  \* deadline[t]: of the wait of t
  items      \* external: what the consumers wait for

condition == <<mu, waiters, wakeups, pc, deadline, items>>
vars == <<mutex, condition>>

\* "check", "add": locks the QMutex, and then looks for an item or adds one;
\* "entered": in wait(), about to unlock the QMutex; "unlocked": about to block
\* on the condition; "blocked"; "signalled", "expired": back from it; "added":
\* about to wake; "late": the same after unlocking; "leave": about to unlock.
InWait == {"entered", "unlocked", "blocked", "signalled", "expired"}

ConditionTypeOK ==
  /\ MutexTypeOK
  /\ mu \in Thread \cup {Nobody} /\ waiters \in Nat /\ wakeups \in Nat
  /\ pc \in [Thread -> InWait \cup {"idle", "check", "add", "added", "late", "leave"}]
  /\ deadline \in [Thread -> {"forever", "running", "expired"}]
  /\ items \in 0..MaxItems

Init ==
  /\ MutexInit
  /\ mu = Nobody /\ waiters = 0 /\ wakeups = 0 /\ items = 0
  /\ pc = [t \in Thread |-> "idle"]
  /\ deadline = [t \in Thread |-> "forever"]

Goes(t, l) == pc' = [pc EXCEPT ![t] = l]
-----------------------------------------------------------------------------
\* QWaitCondition::wait(QMutex *, QDeadlineTimer)

Wait(t, when) ==
  /\ mu = Nobody
  /\ mu' = t
  /\ waiters' = waiters + 1
  /\ Goes(t, "entered")
  /\ deadline' = [deadline EXCEPT ![t] = when]
  /\ UNCHANGED <<mutex, wakeups, items>>

\* mutex->unlock(), with the pthread mutex
UnlockMutex(t) ==
  /\ pc[t] = "entered"
  /\ Unlock(t)
  /\ Goes(t, "unlocked")
  /\ UNCHANGED <<mu, waiters, wakeups, deadline, items>>

\* pthread_cond_wait or pthread_cond_timedwait blocks, and lets go of the
\* pthread mutex in the same step.
Block(t) ==
  /\ pc[t] = "unlocked" /\ lock[t] = "out"
  /\ mu' = Nobody
  /\ Goes(t, "blocked")
  /\ UNCHANGED <<mutex, waiters, wakeups, deadline, items>>

\* The condition wakes a thread without a reason, or at its deadline.
SpuriousWake(t) ==
  /\ pc[t] = "blocked"
  /\ Goes(t, "signalled")
  /\ UNCHANGED <<mutex, mu, waiters, wakeups, deadline, items>>

TimeOut(t) ==
  /\ pc[t] = "blocked" /\ deadline[t] = "running"
  /\ Goes(t, "expired")
  /\ deadline' = [deadline EXCEPT ![t] = "expired"]
  /\ UNCHANGED <<mutex, mu, waiters, wakeups, items>>

\* Back with the pthread mutex: no wakeup is there to be taken, and the thread
\* blocks again; or it takes one; or it has timed out and takes none.
Resume(t) ==
  /\ mu = Nobody
  /\ \/ /\ pc[t] = "signalled" /\ wakeups = 0
        /\ Goes(t, "blocked")
        /\ UNCHANGED <<waiters, wakeups>>
     \/ /\ pc[t] = "signalled" /\ wakeups > 0
        /\ Goes(t, "check")
        /\ waiters' = waiters - 1 /\ wakeups' = wakeups - 1
     \/ /\ pc[t] = "expired"
        /\ Goes(t, "check")
        /\ waiters' = waiters - 1 /\ UNCHANGED wakeups
  /\ UNCHANGED <<mutex, mu, deadline, items>>

\* Fault: wakeups are not added up.
OneWakeup == IF waiters > 0 THEN 1 ELSE 0

\* qMin(d->wakeups + 1, d->waiters)
OneMoreWakeup == IF wakeups < waiters THEN wakeups + 1 ELSE waiters

Blocked == {t \in Thread : pc[t] = "blocked"}

\* wakeOne() and wakeAll(), after which the producer goes to l; the condition
\* signals one of those that block, or all.
Wake(t, l, S) == pc' = [s \in Thread |-> IF s = t THEN l ELSE IF s \in S THEN "signalled" ELSE pc[s]]

WakeOneWaiter(t, l) ==
  /\ mu = Nobody
  /\ wakeups' = OneMoreWakeup
  /\ \/ Blocked = {} /\ Goes(t, l)
     \/ \E s \in Blocked : Wake(t, l, {s})
  /\ UNCHANGED <<mutex, mu, waiters, deadline, items>>

WakeAllWaiters(t, l) ==
  /\ mu = Nobody
  /\ wakeups' = waiters
  /\ Wake(t, l, Blocked)
  /\ UNCHANGED <<mutex, mu, waiters, deadline, items>>

-----------------------------------------------------------------------------
\* The callers.

Begin(t) ==
  /\ pc[t] = "idle" /\ lock[t] = "out"
  /\ Goes(t, IF t \in Consumer THEN "check" ELSE "add")
  /\ UNCHANGED <<mutex, mu, waiters, wakeups, deadline, items>>

\* The caller, or wait() before it returns, locks the QMutex.
LockMutex(t) ==
  /\ pc[t] \in {"check", "add"}
  /\ Lock(t, FALSE)
  /\ UNCHANGED condition

Check(t) ==
  /\ pc[t] = "check" /\ lock[t] = "held"
  /\ \/ /\ items > 0
        /\ items' = items - 1
        /\ deadline' = [deadline EXCEPT ![t] = "forever"]
        /\ Goes(t, "leave")
        /\ UNCHANGED <<mutex, mu, waiters, wakeups>>
     \/ /\ items = 0 /\ deadline[t] # "expired"
        /\ \E when \in {"forever", "running"} : Wait(t, when)
     \/ /\ items = 0 /\ deadline[t] = "expired"
        /\ deadline' = [deadline EXCEPT ![t] = "forever"]
        /\ Goes(t, "leave")
        /\ UNCHANGED <<mutex, mu, waiters, wakeups, items>>

Add(t) ==
  /\ pc[t] = "add" /\ lock[t] = "held"
  /\ IF items < MaxItems THEN items' = items + 1 /\ Goes(t, "added")
     ELSE UNCHANGED items /\ Goes(t, "leave")
  /\ UNCHANGED <<mutex, mu, waiters, wakeups, deadline>>

Notify(t) ==
  \/ pc[t] = "added" /\ (WakeOneWaiter(t, "leave") \/ WakeAllWaiters(t, "leave"))
  \/ pc[t] = "late" /\ lock[t] = "out" /\ (WakeOneWaiter(t, "idle") \/ WakeAllWaiters(t, "idle"))

Leave(t) ==
  /\ pc[t] \in {"leave", "added"}
  /\ Unlock(t)
  /\ Goes(t, IF pc[t] = "added" THEN "late" ELSE "idle")
  /\ UNCHANGED <<mu, waiters, wakeups, deadline, items>>

Next ==
  \E t \in Thread :
    \/ Begin(t) \/ LockMutex(t) \/ Check(t) \/ Add(t) \/ Notify(t) \/ Leave(t)
    \/ UnlockMutex(t) \/ Block(t) \/ Resume(t) \/ SpuriousWake(t) \/ TimeOut(t)
    \/ (MutexStep(t) \/ Interrupt(t)) /\ UNCHANGED condition

Spec == Init /\ [][Next]_vars
-----------------------------------------------------------------------------
\* No wakeup is lost or swallowed, though a thread may time out between being
\* counted and being woken, and though one that has just come may take the
\* wakeup of another: while somebody blocks, as many threads are about to look
\* or to wake another as there are items.  Those who are back from the
\* condition count as far as there are wakeups for them.  And waiters is the
\* number of threads in wait(), as its assertions need.
Signalled == {t \in Thread : pc[t] = "signalled"}
AboutToLook == {t \in Thread : pc[t] \in {"added", "late", "check", "expired"}}
AllowedBack == IF Cardinality(Signalled) < wakeups THEN Cardinality(Signalled) ELSE wakeups

WakesAreDue ==
  /\ ConditionTypeOK
  /\ waiters = Cardinality({t \in Thread : pc[t] \in InWait})
  /\ Blocked # {} => items <= Cardinality(AboutToLook) + AllowedBack
=============================================================================
