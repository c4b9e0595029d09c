----------------------------- MODULE Semaphore ------------------------------
(***************************************************************************)
(* QSemaphore on a futex, src/corelib/thread/qsemaphore.cpp.               *)
(*                                                                         *)
(* The semaphore is one atomic word.  Its low half is the number of        *)
(* tokens.  On 64-bit Linux its high half holds the sum of the tokens and  *)
(* the waiters, and the high bit says that a waiter for several tokens is  *)
(* there; elsewhere there is only the bit, and it stands for any waiter.   *)
(*                                                                         *)
(* Every atomic operation is a step.  A load with the compare-and-swap     *)
(* loop after it is one step: the loop ends with a swap of a value that it *)
(* has just compared, or with a value that it cannot swap.  The kernel's   *)
(* comparison and going to sleep is one step, as is its waking of several. *)
(***************************************************************************)
EXTENDS Integers, FiniteSets, FiniteSetsExt

CONSTANTS
  Acquirer,       \* threads that call acquire and tryAcquire
  Releaser,       \* threads that call release
  Amount,         \* numbers of tokens that are asked for
  ReleaseAmount,  \* numbers of tokens that are released
  InitialTokens,  \* the argument of the constructor
  MaxTokens,      \* bound: tokens released in a behaviour, the first included
  HasWaiterCount  \* futexHasWaiterCount: 64-bit with FUTEX_OP

ASSUME SemaphoreAssumption ==
  /\ IsFiniteSet(Acquirer)
  /\ Amount \subseteq Nat \ {0} /\ ReleaseAmount \subseteq Nat
  /\ MaxTokens \in Nat /\ InitialTokens \in 0..MaxTokens
  /\ HasWaiterCount \in BOOLEAN

VARIABLES
  u,        \* the word: tokens, sum and bit
  pc,       \* where a thread is
  want,     \* n, the tokens that an acquirer asks for or a releaser has added
  timed,    \* timed[a]: the call has a timeout
  cur,      \* the half of curValue that futexWait compares, see Half
  released, \* history: tokens put into the semaphore
  acquired  \* history: tokens taken out of it

vars == <<u, pc, want, timed, cur, released, acquired>>

Word == [tokens : Nat, sum : Nat, bit : BOOLEAN]

\* "add" and "mark": about to announce the wait; "sleep": about to call
\* futexWait; "asleep": in it; "awake": back; "leave": timed out.
Waiting == {"mark", "sleep", "asleep", "awake", "leave"}

SemaphoreTypeOK ==
  /\ u \in Word
  /\ pc \in [Acquirer \cup Releaser -> {"idle", "add", "wake"} \cup Waiting]
  /\ want \in [Acquirer \cup Releaser -> Nat]
  /\ timed \in [Acquirer -> BOOLEAN]
  /\ cur \in [Acquirer -> Word]
  /\ released \in 0..MaxTokens
  /\ acquired \in Nat

\* The value of cur[a] where the variable of the code is not in use; want[t]
\* and timed[a] likewise are 0 and FALSE outside a call.
NoWord == [tokens |-> 0, sum |-> 0, bit |-> FALSE]

\* What a thread that waits for n tokens compares: the high half or the low one.
Half(w, n) ==
  IF ~HasWaiterCount THEN [NoWord EXCEPT !.tokens = w.tokens, !.bit = w.bit]
  ELSE IF n > 1 THEN [NoWord EXCEPT !.sum = w.sum, !.bit = w.bit]
  ELSE [NoWord EXCEPT !.tokens = w.tokens]

CounterPart(n) == IF HasWaiterCount THEN n ELSE 0

Init ==
  /\ u = [tokens |-> InitialTokens, sum |-> CounterPart(InitialTokens), bit |-> FALSE]
  /\ pc = [t \in Acquirer \cup Releaser |-> "idle"]
  /\ want = [t \in Acquirer \cup Releaser |-> 0]
  /\ timed = [a \in Acquirer |-> FALSE]
  /\ cur = [a \in Acquirer |-> NoWord]
  /\ released = InitialTokens
  /\ acquired = 0

-----------------------------------------------------------------------------
\* acquire(n) and tryAcquire(n, timeout).

\* The call returns.
Return(a) ==
  /\ pc' = [pc EXCEPT ![a] = "idle"]
  /\ want' = [want EXCEPT ![a] = 0]
  /\ timed' = [timed EXCEPT ![a] = FALSE]
  /\ cur' = [cur EXCEPT ![a] = NoWord]

\* The swap that takes n tokens, and with them so many waiters.
Take(a, n, waiters) ==
  /\ u.tokens >= n
  /\ u' = [u EXCEPT !.tokens = @ - n, !.sum = @ - CounterPart(n + waiters)]
  /\ acquired' = acquired + n
  /\ Return(a)
  /\ UNCHANGED released

\* Only a waiter for several tokens marks the word when waiters are counted.
Marks(n) == n > 1 \/ ~HasWaiterCount
Announce(n) == IF Marks(n) THEN "mark" ELSE "sleep"

\* The first attempt.  (A tryAcquire without timeout ends here and changes
\* nothing when it fails.)
Acquire(a, n, t) ==
  /\ pc[a] = "idle"
  /\ \/ Take(a, n, 0)
     \/ /\ u.tokens < n
        /\ pc' = [pc EXCEPT ![a] = IF HasWaiterCount THEN "add" ELSE "mark"]
        /\ want' = [want EXCEPT ![a] = n]
        /\ timed' = [timed EXCEPT ![a] = t]
        /\ cur' = [cur EXCEPT ![a] = Half(u, n)]
        /\ UNCHANGED <<u, released, acquired>>

\* fetchAndAdd(oneWaiter), to the word and to what the thread knows of it.
AddWaiter(a) ==
  /\ pc[a] = "add"
  /\ u' = [u EXCEPT !.sum = @ + 1]
  /\ cur' = [cur EXCEPT ![a].sum = IF want[a] > 1 THEN @ + 1 ELSE @]
  /\ pc' = [pc EXCEPT ![a] = Announce(want[a])]
  /\ UNCHANGED <<want, timed, released, acquired>>

\* fetchAndOr(futexNeedsWakeAllBit)
Mark(a) ==
  /\ pc[a] = "mark"
  /\ u' = [u EXCEPT !.bit = TRUE]
  /\ cur' = [cur EXCEPT ![a].bit = TRUE]
  /\ pc' = [pc EXCEPT ![a] = "sleep"]
  /\ UNCHANGED <<want, timed, released, acquired>>

\* futexWait compares and goes to sleep in one step.
FutexWait(a) ==
  /\ pc[a] = "sleep"
  /\ pc' = [pc EXCEPT ![a] = IF Half(u, want[a]) = cur[a] THEN "asleep" ELSE "awake"]
  /\ cur' = [cur EXCEPT ![a] = NoWord]
  /\ UNCHANGED <<u, want, timed, released, acquired>>

\* A signal interrupts the wait.
Interrupt(a) ==
  /\ pc[a] = "asleep"
  /\ pc' = [pc EXCEPT ![a] = "awake"]
  /\ UNCHANGED <<u, want, timed, cur, released, acquired>>

\* The attempts after a wait.
Retry(a) ==
  /\ pc[a] = "awake"
  /\ \/ Take(a, want[a], 1)
     \/ /\ u.tokens < want[a]
        /\ cur' = [cur EXCEPT ![a] = Half(u, want[a])]
        /\ pc' = [pc EXCEPT ![a] = Announce(want[a])]
        /\ UNCHANGED <<u, want, timed, released, acquired>>

\* Fault: the waiter is not taken out of the count.
ExpireCounted(a) ==
  /\ timed[a]
  /\ pc[a] = "asleep" \/ (pc[a] = "awake" /\ u.tokens < want[a])
  /\ Return(a)
  /\ UNCHANGED <<u, released, acquired>>

\* The timeout ends futexWait, or is noticed after an attempt that failed.
Expire(a) ==
  /\ timed[a]
  /\ pc[a] = "asleep" \/ (pc[a] = "awake" /\ u.tokens < want[a])
  /\ IF HasWaiterCount
     THEN /\ pc' = [pc EXCEPT ![a] = "leave"]
          /\ cur' = [cur EXCEPT ![a] = NoWord]
          /\ UNCHANGED <<want, timed>>
     ELSE Return(a)
  /\ UNCHANGED <<u, released, acquired>>

\* fetchAndSub(oneWaiter), and false is returned.
Leave(a) ==
  /\ pc[a] = "leave"
  /\ u' = [u EXCEPT !.sum = @ - 1]
  /\ Return(a)
  /\ UNCHANGED <<released, acquired>>

-----------------------------------------------------------------------------
\* release(n)

\* Fault: the bit is looked at where waiters are counted.
NeedsWakeBit == u.bit

\* The bit is the highest of the half that is compared with the tokens.
futexNeedsWake == u.bit \/ (HasWaiterCount /\ u.sum > u.tokens)

\* The swap that adds the tokens and clears the bit.
Release(r, n) ==
  /\ pc[r] = "idle"
  /\ released + n <= MaxTokens
  /\ u' = [tokens |-> u.tokens + n, sum |-> u.sum + CounterPart(n), bit |-> FALSE]
  /\ released' = released + n
  /\ \/ /\ futexNeedsWake
        /\ pc' = [pc EXCEPT ![r] = "wake"]
        /\ want' = [want EXCEPT ![r] = n]
     \/ ~futexNeedsWake /\ UNCHANGED <<pc, want>>
  /\ UNCHANGED <<timed, cur, acquired>>

Asleep == {a \in Acquirer : pc[a] = "asleep"}

\* The sets of threads that futexWakeOp may wake: n that wait for one token and
\* all that wait for several; without the counter, futexWakeAll wakes all.
Woken(n) ==
  LET single == {a \in Asleep : want[a] = 1}
      number == IF n < Cardinality(single) THEN n ELSE Cardinality(single)
  IN  IF HasWaiterCount THEN {S \cup (Asleep \ single) : S \in kSubset(number, single)}
      ELSE {Asleep}

Wake(r) ==
  /\ pc[r] = "wake"
  /\ \E S \in Woken(want[r]) :
       pc' = [t \in DOMAIN pc |->
                IF t \in S THEN "awake" ELSE IF t = r THEN "idle" ELSE pc[t]]
  /\ want' = [want EXCEPT ![r] = 0]
  /\ UNCHANGED <<u, timed, cur, released, acquired>>

-----------------------------------------------------------------------------
Step(a) == AddWaiter(a) \/ Mark(a) \/ FutexWait(a) \/ Retry(a) \/ Leave(a)

Next ==
  \/ \E a \in Acquirer :
       \/ \E n \in Amount, t \in BOOLEAN : Acquire(a, n, t)
       \/ Step(a) \/ Interrupt(a) \/ Expire(a)
  \/ \E r \in Releaser : (\E n \in ReleaseAmount : Release(r, n)) \/ Wake(r)

Spec == Init /\ [][Next]_vars

-----------------------------------------------------------------------------
\* Properties

\* However many threads swap, add, mark and leave at once, the word holds the
\* tokens that were released and not acquired.
TokensAreConserved == u.tokens = released - acquired

\* With the counter, the high half is ahead of the low half by the threads that
\* have announced themselves and not yet acquired or left, so a release that
\* overlooks a waiter is impossible.
Announced == {a \in Acquirer : pc[a] \in Waiting}

WaitersAreCounted ==
  u.sum = IF HasWaiterCount THEN u.tokens + Cardinality(Announced) ELSE 0

\* The word is exact, whatever swaps, adds, marks and timeouts come between each
\* other: no half of it ever goes below zero, no token is lost or made up, and
\* no waiter is overlooked or counted twice.
WordIsExact == SemaphoreTypeOK /\ TokensAreConserved /\ WaitersAreCounted

\* No wakeup is lost.  A thread that sleeps while there are tokens enough for it
\* is about to be woken, or (one token, with the counter) as many threads that
\* wait for one token are already awake as there are tokens.
WakeIsDue(a) ==
  \/ \E r \in Releaser : pc[r] = "wake"
  \/ /\ HasWaiterCount /\ want[a] = 1
     /\ Cardinality({b \in Acquirer : pc[b] = "awake" /\ want[b] = 1}) >= u.tokens

SinglesAreWoken ==
  \A a \in Asleep : want[a] = 1 /\ u.tokens >= 1 => WakeIsDue(a)

SleepersAreWoken == \A a \in Asleep : u.tokens >= want[a] => WakeIsDue(a)
=============================================================================
