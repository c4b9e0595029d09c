--------------------------- MODULE SemaphoreProofs ---------------------------
(***************************************************************************)
(* Proofs about Semaphore, for any finite set of acquirers, any releasers  *)
(* and amounts, and for both layouts of the word.                          *)
(*                                                                         *)
(* The three invariants are inductive only together: that the high half    *)
(* does not become negative (part of the type) follows from the count of   *)
(* the waiters, and that the count stays right needs the thread that       *)
(* leaves to be one of those counted.  CountedCalls adds that only the     *)
(* layout with the counter reaches the two steps that change it.           *)
(*                                                                         *)
(* That no wakeup is lost needs an invariant for each layout.  Without the *)
(* counter (SleepInv) it is the bit that a sleeper has set.  With it       *)
(* (SinglesInv) a token beside a sleeper is matched by a thread that is    *)
(* awake or by a wake that a release still owes; a release may owe several *)
(* at once, so the wakes are counted as pairs of a release and a number.   *)
(***************************************************************************)
EXTENDS Semaphore, FiniteSetTheorems, TLAPS

CountedCalls == \A a \in Acquirer : pc[a] \in {"add", "leave"} => HasWaiterCount

SemaphoreInv ==
  /\ SemaphoreTypeOK
  /\ TokensAreConserved
  /\ WaitersAreCounted
  /\ CountedCalls

-----------------------------------------------------------------------------
\* The number of waiters when one thread moves.

LEMMA AnnouncedIsFinite ==
  /\ IsFiniteSet(Announced) /\ Cardinality(Announced) \in Nat
  /\ \A a \in Announced : Cardinality(Announced) >= 1
<1>1. IsFiniteSet(Announced)
  BY SemaphoreAssumption, FS_Subset DEF Announced
<1>2. Cardinality(Announced) \in Nat
  BY <1>1, FS_CardinalityType
<1>3. Announced # {} => Cardinality(Announced) # 0
  BY <1>1, FS_EmptySet
<1> QED
  BY <1>1, <1>2, <1>3

LEMMA AnnouncedMoves ==
  ASSUME SemaphoreTypeOK, NEW a \in Acquirer, NEW x, pc' = [pc EXCEPT ![a] = x]
  PROVE  /\ x \in Waiting /\ pc[a] \notin Waiting
              => Cardinality(Announced') = Cardinality(Announced) + 1
         /\ x \notin Waiting /\ pc[a] \in Waiting
              => Cardinality(Announced') = Cardinality(Announced) - 1
         /\ (x \in Waiting <=> pc[a] \in Waiting) => Announced' = Announced
<1>1. \A b \in Acquirer : pc'[b] = IF b = a THEN x ELSE pc[b]
  BY DEF SemaphoreTypeOK
<1>2. a \in Announced <=> pc[a] \in Waiting
  BY DEF Announced
<1>3. x \in Waiting => Announced' = Announced \cup {a}
  BY <1>1 DEF Announced
<1>4. x \notin Waiting => Announced' = Announced \ {a}
  BY <1>1 DEF Announced
<1>5. CASE x \in Waiting
  <2>1. Cardinality(Announced \cup {a}) =
          IF a \in Announced THEN Cardinality(Announced) ELSE Cardinality(Announced) + 1
    BY AnnouncedIsFinite, FS_AddElement
  <2>2. a \in Announced => Announced \cup {a} = Announced
    OBVIOUS
  <2> QED
    BY <1>2, <1>3, <1>5, <2>1, <2>2
<1>6. CASE x \notin Waiting
  <2>1. Cardinality(Announced \ {a}) =
          IF a \in Announced THEN Cardinality(Announced) - 1 ELSE Cardinality(Announced)
    BY AnnouncedIsFinite, FS_RemoveElement
  <2>2. a \notin Announced => Announced \ {a} = Announced
    OBVIOUS
  <2> QED
    BY <1>2, <1>4, <1>6, <2>1, <2>2
<1> QED
  BY <1>5, <1>6

-----------------------------------------------------------------------------
LEMMA TakeKeeps ==
  ASSUME SemaphoreInv, NEW a \in Acquirer, NEW n \in Nat, NEW w \in {0, 1},
         w = IF pc[a] \in Waiting THEN 1 ELSE 0, Take(a, n, w)
  PROVE  SemaphoreInv'
<1> USE DEF SemaphoreInv
<1>1. pc' = [pc EXCEPT ![a] = "idle"] /\ "idle" \notin Waiting
  BY DEF Take, Return, Waiting
<1>2. Cardinality(Announced') = Cardinality(Announced) - w
  <2>1. CASE pc[a] \in Waiting
    BY <1>1, <2>1, AnnouncedMoves
  <2>2. CASE pc[a] \notin Waiting
    <3>1. Announced' = Announced
      BY <1>1, <2>2, AnnouncedMoves
    <3> QED
      BY <2>2, <3>1, AnnouncedIsFinite
  <2> QED
    BY <2>1, <2>2
<1>3. w <= Cardinality(Announced)
  BY AnnouncedIsFinite DEF Announced
<1>4. u.tokens \in Nat /\ u.sum \in Nat /\ u.bit \in BOOLEAN
  BY DEF SemaphoreTypeOK, Word
<1>5. /\ u'.tokens = u.tokens - n /\ u'.sum = u.sum - CounterPart(n + w)
      /\ u' = [tokens |-> u'.tokens, sum |-> u'.sum, bit |-> u.bit]
      /\ u.tokens >= n
  BY DEF Take, SemaphoreTypeOK, Word
<1>6. u'.sum = (IF HasWaiterCount THEN u'.tokens + Cardinality(Announced') ELSE 0)
      /\ u'.sum \in Nat
  BY <1>2, <1>3, <1>4, <1>5, AnnouncedIsFinite DEF WaitersAreCounted, CounterPart
<1>7. u' \in Word
  <2>1. u'.tokens \in Nat
    BY <1>4, <1>5
  <2> QED
    BY <1>4, <1>5, <1>6, <2>1 DEF Word
<1>8. SemaphoreTypeOK'
  BY <1>1, <1>7 DEF SemaphoreTypeOK, Take, Return, NoWord, Word
<1>9. TokensAreConserved'
  BY <1>4, <1>5 DEF TokensAreConserved, Take, SemaphoreTypeOK
<1>10. CountedCalls'
  BY <1>1 DEF CountedCalls, SemaphoreTypeOK
<1> QED
  BY <1>6, <1>8, <1>9, <1>10 DEF WaitersAreCounted

LEMMA AcquireKeeps ==
  ASSUME SemaphoreInv, NEW a \in Acquirer, NEW n \in Amount, NEW t \in BOOLEAN,
         Acquire(a, n, t)
  PROVE  SemaphoreInv'
<1>1. n \in Nat /\ pc[a] \notin Waiting
  BY SemaphoreAssumption DEF Acquire, Waiting
<1>2. CASE Take(a, n, 0)
  BY <1>1, <1>2, TakeKeeps
<1>3. CASE ~Take(a, n, 0)
  <2>1. /\ pc' = [pc EXCEPT ![a] = IF HasWaiterCount THEN "add" ELSE "mark"]
        /\ want' = [want EXCEPT ![a] = n]
        /\ timed' = [timed EXCEPT ![a] = t]
        /\ cur' = [cur EXCEPT ![a] = Half(u, n)]
        /\ UNCHANGED <<u, released, acquired>>
    BY <1>3 DEF Acquire
  <2>2. Half(u, n) \in Word
    BY DEF Half, Word, NoWord, SemaphoreInv, SemaphoreTypeOK
  <2>3. SemaphoreTypeOK'
    BY <1>1, <2>1, <2>2 DEF SemaphoreInv, SemaphoreTypeOK, Waiting
  <2>4. HasWaiterCount => Announced' = Announced
    <3>1. HasWaiterCount => pc' = [pc EXCEPT ![a] = "add"] /\ "add" \notin Waiting
      BY <2>1 DEF Waiting
    <3> QED
      BY <1>1, <3>1, AnnouncedMoves DEF SemaphoreInv
  <2>5. WaitersAreCounted'
    BY <2>1, <2>4 DEF SemaphoreInv, WaitersAreCounted
  <2>6. CountedCalls'
    BY <2>1 DEF SemaphoreInv, SemaphoreTypeOK, CountedCalls
  <2> QED
    BY <2>1, <2>3, <2>5, <2>6 DEF SemaphoreInv, TokensAreConserved
<1> QED
  BY <1>2, <1>3

LEMMA AddWaiterKeeps ==
  ASSUME SemaphoreInv, NEW a \in Acquirer, AddWaiter(a)
  PROVE  SemaphoreInv'
<1> USE DEF SemaphoreInv
<1>1. /\ HasWaiterCount /\ pc[a] \notin Waiting /\ Announce(want[a]) \in {"mark", "sleep"}
      /\ Announce(want[a]) \in Waiting
  BY DEF AddWaiter, CountedCalls, Waiting, Announce
<1>2. Cardinality(Announced') = Cardinality(Announced) + 1
  BY <1>1, AnnouncedMoves DEF AddWaiter
<1>3. /\ u \in Word /\ u'.sum = u.sum + 1 /\ u'.tokens = u.tokens /\ u' \in Word
      /\ cur' \in [Acquirer -> Word]
  BY DEF AddWaiter, SemaphoreTypeOK, Word
<1>4. SemaphoreTypeOK'
  BY <1>1, <1>3 DEF AddWaiter, SemaphoreTypeOK
<1>5. WaitersAreCounted'
  BY <1>1, <1>2, <1>3, AnnouncedIsFinite DEF WaitersAreCounted, Word
<1>6. TokensAreConserved'
  BY <1>3 DEF AddWaiter, TokensAreConserved
<1>7. CountedCalls'
  BY <1>1 DEF CountedCalls
<1> QED
  BY <1>4, <1>5, <1>6, <1>7

\* The steps of a waiter that leave the halves of the word alone.
LEMMA WaiterKeeps ==
  ASSUME SemaphoreInv, NEW a \in Acquirer, NEW x \in Waiting,
         pc[a] \in Waiting, pc' = [pc EXCEPT ![a] = x], x = "leave" => HasWaiterCount,
         u' \in Word, u'.tokens = u.tokens, u'.sum = u.sum,
         cur' \in [Acquirer -> Word],
         UNCHANGED <<want, timed, released, acquired>>
  PROVE  SemaphoreInv'
<1> USE DEF SemaphoreInv
<1>1. Announced' = Announced
  BY AnnouncedMoves
<1>2. SemaphoreTypeOK'
  BY DEF SemaphoreTypeOK
<1>3. CountedCalls'
  BY DEF CountedCalls, SemaphoreTypeOK, Waiting
<1> QED
  BY <1>1, <1>2, <1>3 DEF WaitersAreCounted, TokensAreConserved

LEMMA WaitKeeps ==
  ASSUME SemaphoreInv, NEW a \in Acquirer,
         Mark(a) \/ FutexWait(a) \/ Interrupt(a)
  PROVE  SemaphoreInv'
<1>1. /\ u \in Word /\ cur \in [Acquirer -> Word] /\ NoWord \in Word
      /\ {"mark", "sleep", "asleep", "awake"} \subseteq Waiting
  BY DEF SemaphoreInv, SemaphoreTypeOK, NoWord, Word, Waiting
<1>2. CASE Mark(a)
  <2>1. u' \in Word /\ u'.tokens = u.tokens /\ u'.sum = u.sum
    BY <1>1, <1>2 DEF Mark, Word
  <2>2. cur' \in [Acquirer -> Word]
    BY <1>1, <1>2 DEF Mark, Word
  <2> QED
    BY <1>1, <1>2, <2>1, <2>2, WaiterKeeps DEF Mark
<1>3. CASE FutexWait(a)
  <2>1. \E x \in {"asleep", "awake"} : pc' = [pc EXCEPT ![a] = x]
    BY <1>3 DEF FutexWait
  <2>2. u' = u /\ cur' \in [Acquirer -> Word] /\ pc[a] \in Waiting
    BY <1>1, <1>3 DEF FutexWait
  <2> QED
    BY <1>1, <1>3, <2>1, <2>2, WaiterKeeps DEF FutexWait
<1>4. CASE Interrupt(a)
  BY <1>1, <1>4, WaiterKeeps DEF Interrupt
<1> QED
  BY <1>2, <1>3, <1>4

LEMMA RetryKeeps ==
  ASSUME SemaphoreInv, NEW a \in Acquirer, Retry(a)
  PROVE  SemaphoreInv'
<1>1. pc[a] \in Waiting /\ want[a] \in Nat
  BY DEF Retry, Waiting, SemaphoreInv, SemaphoreTypeOK
<1>2. CASE Take(a, want[a], 1)
  BY <1>1, <1>2, TakeKeeps
<1>3. CASE ~Take(a, want[a], 1)
  <2>1. /\ Half(u, want[a]) \in Word /\ u \in Word
        /\ Announce(want[a]) \in Waiting \ {"leave"}
    BY DEF Half, Word, NoWord, SemaphoreInv, SemaphoreTypeOK, Announce, Waiting
  <2>2. /\ cur' = [cur EXCEPT ![a] = Half(u, want[a])]
        /\ pc' = [pc EXCEPT ![a] = Announce(want[a])]
        /\ UNCHANGED <<u, want, timed, released, acquired>>
    BY <1>3 DEF Retry
  <2>3. cur' \in [Acquirer -> Word]
    BY <2>1, <2>2 DEF SemaphoreInv, SemaphoreTypeOK
  <2> QED
    BY <1>1, <2>1, <2>2, <2>3, WaiterKeeps
<1> QED
  BY <1>2, <1>3

\* A call that returns without tokens.
LEMMA ReturnKeeps ==
  ASSUME SemaphoreInv, NEW a \in Acquirer, pc[a] \in Waiting, Return(a),
         u' = [u EXCEPT !.sum = @ - CounterPart(1)],
         UNCHANGED <<released, acquired>>
  PROVE  SemaphoreInv'
<1> USE DEF SemaphoreInv
<1>1. pc' = [pc EXCEPT ![a] = "idle"] /\ "idle" \notin Waiting
  BY DEF Return, Waiting
<1>2. Cardinality(Announced') = Cardinality(Announced) - 1 /\ Cardinality(Announced) >= 1
  BY <1>1, AnnouncedMoves, AnnouncedIsFinite DEF Announced
<1>3. u \in Word /\ u'.tokens = u.tokens /\ u'.sum = u.sum - CounterPart(1)
  BY DEF SemaphoreTypeOK, Word
<1>4. WaitersAreCounted' /\ u'.sum \in Nat
  BY <1>2, <1>3, AnnouncedIsFinite DEF WaitersAreCounted, CounterPart, Word
<1>5. u' \in Word
  BY <1>3, <1>4 DEF Word
<1>6. SemaphoreTypeOK'
  BY <1>1, <1>5 DEF SemaphoreTypeOK, Return, NoWord, Word
<1>7. CountedCalls'
  BY <1>1 DEF CountedCalls, SemaphoreTypeOK
<1> QED
  BY <1>3, <1>4, <1>6, <1>7 DEF TokensAreConserved

LEMMA LeaveKeeps ==
  ASSUME SemaphoreInv, NEW a \in Acquirer, Expire(a) \/ Leave(a)
  PROVE  SemaphoreInv'
<1>1. pc[a] \in Waiting /\ u \in Word /\ NoWord \in Word
  BY DEF Expire, Leave, Waiting, SemaphoreInv, SemaphoreTypeOK, NoWord, Word
<1>2. CASE Leave(a)
  BY <1>1, <1>2, ReturnKeeps DEF Leave, CounterPart, SemaphoreInv, CountedCalls
<1>3. CASE Expire(a) /\ HasWaiterCount
  <2>1. /\ pc' = [pc EXCEPT ![a] = "leave"] /\ "leave" \in Waiting
        /\ cur' = [cur EXCEPT ![a] = NoWord]
        /\ UNCHANGED <<u, want, timed, released, acquired>>
    BY <1>3 DEF Expire, Waiting
  <2>2. cur' \in [Acquirer -> Word]
    BY <1>1, <2>1 DEF SemaphoreInv, SemaphoreTypeOK
  <2> QED
    BY <1>1, <1>3, <2>1, <2>2, WaiterKeeps
<1>4. CASE Expire(a) /\ ~HasWaiterCount
  <2>1. u' = [u EXCEPT !.sum = @ - CounterPart(1)]
    BY <1>1, <1>4 DEF Expire, CounterPart, Word
  <2> QED
    BY <1>1, <1>4, <2>1, ReturnKeeps DEF Expire
<1> QED
  BY <1>2, <1>3, <1>4

LEMMA ReleaseKeeps ==
  ASSUME SemaphoreInv, NEW r \in Releaser, NEW n \in ReleaseAmount, Release(r, n)
  PROVE  SemaphoreInv'
<1> USE DEF SemaphoreInv
<1>1. /\ n \in Nat /\ u \in Word
      /\ u' = [tokens |-> u.tokens + n, sum |-> u.sum + CounterPart(n), bit |-> FALSE]
      /\ u' \in Word
  BY SemaphoreAssumption DEF Release, SemaphoreTypeOK, Word, CounterPart
<1>2. /\ pc' \in [Acquirer \cup Releaser -> {"idle", "add", "wake"} \cup Waiting]
      /\ want' \in [Acquirer \cup Releaser -> Nat]
      /\ \A a \in Acquirer : pc'[a] = pc[a] \/ (pc[a] = "idle" /\ pc'[a] = "wake")
  BY <1>1 DEF Release, SemaphoreTypeOK
<1>3. Announced' = Announced
  BY <1>2 DEF Announced, Waiting
<1>4. SemaphoreTypeOK'
  BY <1>1, <1>2, SemaphoreAssumption DEF SemaphoreTypeOK, Release
<1>5. WaitersAreCounted'
  BY <1>1, <1>3, AnnouncedIsFinite DEF WaitersAreCounted, CounterPart, Word
<1>6. TokensAreConserved'
  BY <1>1 DEF TokensAreConserved, Release, SemaphoreTypeOK, Word
<1>7. CountedCalls'
  BY <1>2 DEF CountedCalls
<1> QED
  BY <1>4, <1>5, <1>6, <1>7

LEMMA WakeKeeps ==
  ASSUME SemaphoreInv, NEW r \in Releaser, Wake(r)
  PROVE  SemaphoreInv'
<1> USE DEF SemaphoreInv
<1>1. PICK S \in Woken(want[r]) :
        pc' = [t \in DOMAIN pc |->
                 IF t \in S THEN "awake" ELSE IF t = r THEN "idle" ELSE pc[t]]
  BY DEF Wake
<1>2. S \subseteq Asleep
  BY <1>1 DEF Woken, kSubset
<1>3. /\ pc' \in [Acquirer \cup Releaser -> {"idle", "add", "wake"} \cup Waiting]
      /\ want' \in [Acquirer \cup Releaser -> Nat]
  BY <1>1 DEF Wake, SemaphoreTypeOK, Waiting
<1>4. \A a \in Acquirer :
        \/ pc'[a] = pc[a]
        \/ pc[a] = "asleep" /\ pc'[a] = "awake"
        \/ pc[a] = "wake" /\ pc'[a] = "idle"
  BY <1>1, <1>2 DEF Wake, SemaphoreTypeOK, Asleep
<1>5. Announced' = Announced
  BY <1>4 DEF Announced, Waiting
<1>6. SemaphoreTypeOK'
  BY <1>3 DEF SemaphoreTypeOK, Wake
<1>7. CountedCalls'
  BY <1>4 DEF CountedCalls
<1> QED
  BY <1>5, <1>6, <1>7 DEF Wake, WaitersAreCounted, TokensAreConserved

-----------------------------------------------------------------------------
\* The three invariants hold in every reachable state, and with them
\* CountedCalls: whatever the threads, amounts and layout.
THEOREM SemaphoreInvariant == Spec => []SemaphoreInv
<1>1. Init => SemaphoreInv
  <2> SUFFICES ASSUME Init PROVE SemaphoreInv
    OBVIOUS
  <2>1. Announced = {}
    BY DEF Init, Announced, Waiting
  <2>2. InitialTokens \in Nat /\ MaxTokens \in Nat /\ InitialTokens <= MaxTokens
    BY SemaphoreAssumption
  <2>3. SemaphoreTypeOK
    BY <2>2 DEF Init, SemaphoreTypeOK, Word, CounterPart, NoWord
  <2>4. WaitersAreCounted
    BY <2>1, <2>2, FS_EmptySet DEF Init, WaitersAreCounted, CounterPart
  <2> QED
    BY <2>2, <2>3, <2>4 DEF SemaphoreInv, Init, TokensAreConserved, CountedCalls
<1>2. SemaphoreInv /\ [Next]_vars => SemaphoreInv'
  <2> SUFFICES ASSUME SemaphoreInv, [Next]_vars PROVE SemaphoreInv'
    OBVIOUS
  <2>1. CASE \E a \in Acquirer, n \in Amount, t \in BOOLEAN : Acquire(a, n, t)
    BY <2>1, AcquireKeeps
  <2>2. CASE \E a \in Acquirer : Step(a) \/ Interrupt(a) \/ Expire(a)
    BY <2>2, AddWaiterKeeps, WaitKeeps, RetryKeeps, LeaveKeeps DEF Step
  <2>3. CASE \E r \in Releaser : (\E n \in ReleaseAmount : Release(r, n)) \/ Wake(r)
    BY <2>3, ReleaseKeeps, WakeKeeps
  <2>4. CASE UNCHANGED vars
    BY <2>4 DEF vars, SemaphoreInv, SemaphoreTypeOK, TokensAreConserved,
                WaitersAreCounted, Announced, CountedCalls
  <2> QED
    BY <2>1, <2>2, <2>3, <2>4 DEF Next
<1> QED
  BY <1>1, <1>2, PTL DEF Spec

\* The types, of which that no half of the word becomes negative is the hard part.
THEOREM SemaphoreTypeCorrect == Spec => []SemaphoreTypeOK
  BY SemaphoreInvariant, PTL DEF SemaphoreInv

\* No token is lost or made up.
THEOREM TokensConserved == Spec => []TokensAreConserved
  BY SemaphoreInvariant, PTL DEF SemaphoreInv

\* Every waiter is counted in the high half, so futexNeedsWake sees it.
THEOREM WaitersCounted == Spec => []WaitersAreCounted
  BY SemaphoreInvariant, PTL DEF SemaphoreInv

\* The word is exact under every interleaving of the atomic operations: the
\* three together.
THEOREM WordExact == Spec => []WordIsExact
  BY SemaphoreTypeCorrect, TokensConserved, WaitersCounted, PTL DEF WordIsExact

-----------------------------------------------------------------------------
\* Without the counter.  A thread falls asleep on a word that has its bit set
\* and too few tokens; a release that adds tokens finds the bit, or the bit has
\* been cleared by a release that has yet to wake everybody.

WakeUnderWay == \E r \in Releaser : pc[r] = "wake"

SleepInv ==
  \A a \in Acquirer :
    /\ pc[a] \in {"mark", "sleep"} => cur[a].tokens < want[a]
    /\ pc[a] = "sleep" => cur[a].bit
    /\ pc[a] = "asleep" => (u.bit /\ u.tokens < want[a]) \/ WakeUnderWay

\* A step of one acquirer that adds no token, clears no bit and, if it puts the
\* thread to sleep, does so as SleepInv says.
LEMMA AcquirerKeepsSleep ==
  ASSUME SemaphoreTypeOK, SleepInv, NEW a \in Acquirer, pc[a] # "wake",
         \A t \in (Acquirer \cup Releaser) \ {a} : pc'[t] = pc[t] /\ want'[t] = want[t],
         \A b \in Acquirer \ {a} : cur'[b] = cur[b],
         u.bit => u'.bit, u'.tokens \in Int, u'.tokens <= u.tokens,
         pc'[a] \in {"mark", "sleep"} => cur'[a].tokens < want'[a],
         pc'[a] = "sleep" => cur'[a].bit,
         pc'[a] = "asleep" => u'.bit /\ u'.tokens < want'[a]
  PROVE  SleepInv'
<1>1. WakeUnderWay => WakeUnderWay'
  BY DEF WakeUnderWay
<1>2. u.tokens \in Int /\ \A b \in Acquirer : want[b] \in Int
  BY DEF SemaphoreTypeOK, Word
<1> SUFFICES ASSUME NEW b \in Acquirer
             PROVE  /\ pc'[b] \in {"mark", "sleep"} => cur'[b].tokens < want'[b]
                    /\ pc'[b] = "sleep" => cur'[b].bit
                    /\ pc'[b] = "asleep"
                         => (u'.bit /\ u'.tokens < want'[b]) \/ WakeUnderWay'
  BY DEF SleepInv
<1>3. CASE b = a
  BY <1>3
<1>4. CASE b # a
  <2>1. pc'[b] = pc[b] /\ want'[b] = want[b] /\ cur'[b] = cur[b]
    BY <1>4
  <2>2. pc[b] = "asleep" /\ u.bit /\ u.tokens < want[b]
          => u'.bit /\ u'.tokens < want'[b]
    BY <1>2, <2>1
  <2> QED
    BY <1>1, <2>1, <2>2 DEF SleepInv
<1> QED
  BY <1>3, <1>4

LEMMA SleepStep ==
  ASSUME SemaphoreTypeOK, CountedCalls, SleepInv, ~HasWaiterCount, [Next]_vars
  PROVE  SleepInv'
<1>1. u \in Word /\ u.tokens \in Int /\ \A n : CounterPart(n) = 0
  BY DEF SemaphoreTypeOK, Word, CounterPart
<1>2. ASSUME NEW a \in Acquirer, NEW n \in Nat, NEW w \in {0, 1}, pc[a] # "wake",
             Take(a, n, w)
      PROVE  SleepInv'
  <2>1. u'.tokens = u.tokens - n /\ u'.bit = u.bit /\ pc'[a] = "idle"
    BY <1>1, <1>2 DEF Take, Return, SemaphoreTypeOK, Word
  <2> QED
    BY <1>1, <1>2, <2>1, AcquirerKeepsSleep DEF Take, Return, SemaphoreTypeOK
<1>3. ASSUME NEW a \in Acquirer, NEW n \in Amount, NEW t \in BOOLEAN, Acquire(a, n, t)
      PROVE  SleepInv'
  <2>1. CASE Take(a, n, 0)
    BY <1>2, <1>3, <2>1, SemaphoreAssumption DEF Acquire
  <2>2. CASE ~Take(a, n, 0)
    <3>1. /\ u.tokens < n /\ Half(u, n).tokens = u.tokens /\ UNCHANGED u
          /\ pc' = [pc EXCEPT ![a] = "mark"] /\ want' = [want EXCEPT ![a] = n]
          /\ cur' = [cur EXCEPT ![a] = Half(u, n)] /\ pc[a] = "idle"
      BY <1>3, <2>2 DEF Acquire, Half, NoWord
    <3> QED
      BY <1>1, <3>1, AcquirerKeepsSleep DEF SemaphoreTypeOK
  <2> QED
    BY <2>1, <2>2
<1>4. ASSUME NEW a \in Acquirer, AddWaiter(a)
      PROVE  SleepInv'
  BY <1>4 DEF AddWaiter, CountedCalls
<1>5. ASSUME NEW a \in Acquirer, Mark(a)
      PROVE  SleepInv'
  <2>1. u'.tokens = u.tokens /\ u'.bit /\ pc'[a] = "sleep" /\ want'[a] = want[a]
    BY <1>1, <1>5 DEF Mark, SemaphoreTypeOK, Word
  <2>2. cur'[a].tokens = cur[a].tokens /\ cur'[a].bit
    BY <1>5 DEF Mark, SemaphoreTypeOK, Word
  <2> QED
    BY <1>1, <1>5, <2>1, <2>2, AcquirerKeepsSleep DEF Mark, SleepInv, SemaphoreTypeOK
<1>6. ASSUME NEW a \in Acquirer, FutexWait(a)
      PROVE  SleepInv'
  <2>1. pc'[a] = "asleep" => u.bit /\ u.tokens < want[a]
    <3>1. pc'[a] = "asleep" => Half(u, want[a]) = cur[a]
      BY <1>6 DEF FutexWait, SemaphoreTypeOK
    <3>2. Half(u, want[a]).tokens = u.tokens /\ Half(u, want[a]).bit = u.bit
      BY DEF Half, NoWord
    <3> QED
      BY <1>6, <3>1, <3>2 DEF FutexWait, SleepInv
  <2>2. pc'[a] \in {"asleep", "awake"} /\ UNCHANGED <<u, want>>
    BY <1>6 DEF FutexWait, SemaphoreTypeOK
  <2> QED
    BY <1>1, <1>6, <2>1, <2>2, AcquirerKeepsSleep DEF FutexWait, SemaphoreTypeOK
<1>7. ASSUME NEW a \in Acquirer, Interrupt(a)
      PROVE  SleepInv'
  BY <1>1, <1>7, AcquirerKeepsSleep DEF Interrupt, SemaphoreTypeOK
<1>8. ASSUME NEW a \in Acquirer, Retry(a)
      PROVE  SleepInv'
  <2>1. CASE Take(a, want[a], 1)
    BY <1>2, <1>8, <2>1 DEF Retry, SemaphoreTypeOK
  <2>2. CASE ~Take(a, want[a], 1)
    <3>1. /\ u.tokens < want[a] /\ Half(u, want[a]).tokens = u.tokens
          /\ pc' = [pc EXCEPT ![a] = "mark"] /\ UNCHANGED <<u, want>>
          /\ cur' = [cur EXCEPT ![a] = Half(u, want[a])] /\ pc[a] = "awake"
      BY <1>8, <2>2 DEF Retry, Half, NoWord, Announce, Marks
    <3> QED
      BY <1>1, <3>1, AcquirerKeepsSleep DEF SemaphoreTypeOK
  <2> QED
    BY <2>1, <2>2
<1>9. ASSUME NEW a \in Acquirer, Expire(a)
      PROVE  SleepInv'
  <2>1. pc[a] # "wake" /\ pc'[a] = "idle" /\ UNCHANGED u
    BY <1>9 DEF Expire, Return, SemaphoreTypeOK
  <2> QED
    BY <1>1, <1>9, <2>1, AcquirerKeepsSleep DEF Expire, Return, SemaphoreTypeOK
<1>10. ASSUME NEW a \in Acquirer, Leave(a)
       PROVE  SleepInv'
  <2>1. pc[a] # "wake" /\ pc'[a] = "idle" /\ u'.tokens = u.tokens /\ u'.bit = u.bit
    BY <1>1, <1>10 DEF Leave, Return, SemaphoreTypeOK, Word
  <2> QED
    BY <1>1, <1>10, <2>1, AcquirerKeepsSleep DEF Leave, Return, SemaphoreTypeOK
<1>11. ASSUME NEW r \in Releaser, NEW n \in ReleaseAmount, Release(r, n)
       PROVE  SleepInv'
  <2>1. CASE futexNeedsWake
    <3>1. pc' = [pc EXCEPT ![r] = "wake"] /\ want' = [want EXCEPT ![r] = n]
          /\ cur' = cur /\ pc[r] = "idle"
      BY <1>11, <2>1 DEF Release
    <3>2. WakeUnderWay'
      BY <3>1 DEF WakeUnderWay, SemaphoreTypeOK
    <3> QED
      BY <3>1, <3>2 DEF SleepInv, SemaphoreTypeOK
  <2>2. CASE ~futexNeedsWake
    <3>1. ~u.bit /\ UNCHANGED <<pc, want, cur>>
      BY <1>11, <2>2 DEF Release, futexNeedsWake
    <3> QED
      BY <3>1 DEF SleepInv, WakeUnderWay
  <2> QED
    BY <2>1, <2>2
<1>12. ASSUME NEW r \in Releaser, Wake(r)
       PROVE  SleepInv'
  <2>1. /\ pc' = [t \in DOMAIN pc |->
                   IF t \in Asleep THEN "awake" ELSE IF t = r THEN "idle" ELSE pc[t]]
        /\ want' = [want EXCEPT ![r] = 0] /\ cur' = cur /\ pc[r] = "wake"
    BY <1>12 DEF Wake, Woken
  <2>2. \A a \in Acquirer : pc'[a] # "asleep"
    BY <2>1 DEF Asleep, SemaphoreTypeOK
  <2>3. \A a \in Acquirer : pc'[a] \in {"mark", "sleep"} => pc'[a] = pc[a] /\ want'[a] = want[a]
    BY <2>1 DEF SemaphoreTypeOK
  <2> QED
    BY <2>1, <2>2, <2>3 DEF SleepInv
<1>13. CASE UNCHANGED vars
  BY <1>13 DEF vars, SleepInv, WakeUnderWay
<1> QED
  BY <1>3, <1>4, <1>5, <1>6, <1>7, <1>8, <1>9, <1>10, <1>11, <1>12, <1>13 DEF Next, Step

\* Without the counter no wakeup is lost, for any amounts: a thread that sleeps
\* beside tokens enough for it is about to be woken.  (With the counter this is
\* false, see the run semaphore_several.)
THEOREM NoWakeupLostWithoutCounter == Spec => [](~HasWaiterCount => SleepersAreWoken)
<1>1. Init => SleepInv
  BY DEF Init, SleepInv, SemaphoreTypeOK
<1>2. SemaphoreInv /\ (~HasWaiterCount => SleepInv) /\ [Next]_vars
        => (~HasWaiterCount => SleepInv)'
  BY SleepStep DEF SemaphoreInv
<1>3. SemaphoreInv /\ (~HasWaiterCount => SleepInv) => (~HasWaiterCount => SleepersAreWoken)
  <2> SUFFICES ASSUME SemaphoreTypeOK, SleepInv, NEW a \in Asleep, u.tokens >= want[a]
               PROVE  WakeIsDue(a)
    BY DEF SleepersAreWoken, SemaphoreInv
  <2>1. a \in Acquirer /\ ~(u.tokens < want[a])
    BY DEF Asleep, SemaphoreTypeOK, Word
  <2> QED
    BY <2>1 DEF SleepInv, Asleep, WakeIsDue, WakeUnderWay
<1> QED
  BY <1>1, <1>2, <1>3, SemaphoreInvariant, PTL DEF Spec

-----------------------------------------------------------------------------
\* With the counter.  A thread that waits for one token falls asleep only on a
\* word without tokens; every token that comes after that is owed to one of
\* those threads by a release that has yet to wake it, or one is awake for it.

Singles == {b \in Acquirer : pc[b] = "awake" /\ want[b] = 1}
Owed == {p \in Releaser \X (1..MaxTokens) : pc[p[1]] = "wake" /\ p[2] <= want[p[1]]}
ASingleSleeps == \E a \in Asleep : want[a] = 1

SinglesInv ==
  /\ \A r \in Releaser : pc[r] = "wake" => want[r] <= MaxTokens
  /\ \A a \in Acquirer : pc[a] \in {"add", "sleep"} /\ want[a] = 1 => cur[a].tokens = 0
  /\ \A a \in Acquirer : pc[a] = "mark" => want[a] # 1
  /\ ASingleSleeps => u.tokens <= Cardinality(Singles) + Cardinality(Owed)

\* The wakes that a release of n tokens by r owes.
Share(r, n) == {r} \X (1..n)

LEMMA ShareIs ==
  ASSUME NEW r, NEW n \in Nat
  PROVE  IsFiniteSet(Share(r, n)) /\ Cardinality(Share(r, n)) = n
<1>1. IsFiniteSet({r}) /\ Cardinality({r}) = 1
  BY FS_Singleton
<1>2. IsFiniteSet(1..n) /\ Cardinality(1..n) = n
  BY FS_Interval
<1>3. IsFiniteSet(Share(r, n)) /\ Cardinality(Share(r, n)) = Cardinality({r}) * Cardinality(1..n)
  BY <1>1, <1>2, FS_Product DEF Share
<1> QED
  BY <1>1, <1>2, <1>3

LEMMA OwedIsFinite ==
  ASSUME IsFiniteSet(Releaser)
  PROVE  /\ IsFiniteSet(Owed) /\ Cardinality(Owed) \in Nat
         /\ IsFiniteSet(Singles) /\ Cardinality(Singles) \in Nat
<1>1. IsFiniteSet(1..MaxTokens)
  BY SemaphoreAssumption, FS_Interval
<1>2. IsFiniteSet(Releaser \X (1..MaxTokens))
  BY <1>1, FS_Product
<1>3. Owed \in SUBSET (Releaser \X (1..MaxTokens)) /\ Singles \in SUBSET Acquirer
  BY DEF Owed, Singles
<1>4. IsFiniteSet(Owed) /\ IsFiniteSet(Singles)
  BY <1>2, <1>3, SemaphoreAssumption, FS_Subset
<1> QED
  BY <1>4, FS_CardinalityType

\* A step of one acquirer either leaves no tokens, or puts nobody who waits for
\* one token to sleep and takes a token if it takes one of them out of Singles.
LEMMA AcquirerKeepsSingles ==
  ASSUME SemaphoreTypeOK, IsFiniteSet(Releaser), SinglesInv, HasWaiterCount,
         NEW a \in Acquirer, pc[a] # "wake", pc'[a] # "wake",
         \A t \in (Acquirer \cup Releaser) \ {a} : pc'[t] = pc[t] /\ want'[t] = want[t],
         \A b \in Acquirer \ {a} : cur'[b] = cur[b],
         pc'[a] \in {"add", "sleep"} /\ want'[a] = 1 => cur'[a].tokens = 0,
         pc'[a] = "mark" => want'[a] # 1,
         u'.tokens \in Nat, u.tokens \in Nat,
         \/ u'.tokens = 0
         \/ /\ u'.tokens <= u.tokens
            /\ pc'[a] = "asleep" /\ want'[a] = 1 => pc[a] = "asleep" /\ want[a] = 1
            /\ a \in Singles /\ ~(pc'[a] = "awake" /\ want'[a] = 1) => u'.tokens + 1 <= u.tokens
  PROVE  SinglesInv'
<1>1. Owed' = Owed
  BY DEF Owed
<1>2. Singles \ {a} \subseteq Singles' /\ (pc'[a] = "awake" /\ want'[a] = 1 => a \in Singles')
  BY DEF Singles
<1>3. /\ IsFiniteSet(Singles) /\ Cardinality(Singles) \in Nat
      /\ IsFiniteSet(Singles') /\ Cardinality(Singles') \in Nat
      /\ Cardinality(Owed) \in Nat
  <2>1. Singles' \in SUBSET Acquirer
    BY DEF Singles
  <2> QED
    BY <2>1, OwedIsFinite, FS_Subset, FS_CardinalityType, SemaphoreAssumption
<1>4. a \in Singles => Cardinality(Singles) <= Cardinality(Singles') + 1
  <2>1. IsFiniteSet(Singles \ {a}) /\ (a \in Singles => Cardinality(Singles \ {a}) = Cardinality(Singles) - 1)
    BY <1>3, FS_RemoveElement
  <2>2. Cardinality(Singles \ {a}) <= Cardinality(Singles')
    BY <1>2, <1>3, FS_Subset
  <2> QED
    BY <1>3, <2>1, <2>2
<1>5. a \notin Singles \/ (pc'[a] = "awake" /\ want'[a] = 1)
        => Cardinality(Singles) <= Cardinality(Singles')
  <2>1. a \notin Singles \/ (pc'[a] = "awake" /\ want'[a] = 1) => Singles \in SUBSET Singles'
    BY <1>2
  <2> QED
    BY <1>3, <2>1, FS_Subset
<1>6. ASSUME ASingleSleeps'
      PROVE  u'.tokens <= Cardinality(Singles') + Cardinality(Owed)
  <2>1. CASE u'.tokens = 0
    BY <1>3, <2>1
  <2>2. CASE u'.tokens # 0
    <3>1. ASingleSleeps
      BY <1>6, <2>2 DEF ASingleSleeps, Asleep
    <3>2. u.tokens <= Cardinality(Singles) + Cardinality(Owed)
      BY <3>1 DEF SinglesInv
    <3>3. CASE a \in Singles /\ ~(pc'[a] = "awake" /\ want'[a] = 1)
      <4>1. u'.tokens + 1 <= u.tokens
        BY <2>2, <3>3
      <4> QED
        BY <1>3, <1>4, <3>2, <3>3, <4>1
    <3>4. CASE a \notin Singles \/ (pc'[a] = "awake" /\ want'[a] = 1)
      <4>1. u'.tokens <= u.tokens
        BY <2>2
      <4> QED
        BY <1>3, <1>5, <3>2, <3>4, <4>1
    <3> QED
      BY <3>3, <3>4
  <2> QED
    BY <2>1, <2>2
<1>7. \A r \in Releaser : pc'[r] = "wake" => want'[r] <= MaxTokens
  BY DEF SinglesInv
<1>8. \A b \in Acquirer : /\ pc'[b] \in {"add", "sleep"} /\ want'[b] = 1 => cur'[b].tokens = 0
                          /\ pc'[b] = "mark" => want'[b] # 1
  BY DEF SinglesInv
<1> QED
  BY <1>1, <1>6, <1>7, <1>8 DEF SinglesInv

LEMMA ReleaseKeepsSingles ==
  ASSUME SemaphoreInv, SinglesInv, IsFiniteSet(Releaser), HasWaiterCount,
         NEW r \in Releaser, NEW n \in ReleaseAmount, Release(r, n)
  PROVE  SinglesInv'
<1>1. /\ n \in Nat /\ u \in Word /\ u.tokens \in Nat /\ released \in Nat /\ MaxTokens \in Nat
      /\ n <= MaxTokens /\ u'.tokens = u.tokens + n /\ cur' = cur /\ pc[r] = "idle"
  BY SemaphoreAssumption DEF Release, SemaphoreInv, SemaphoreTypeOK, Word
<1>2. CASE futexNeedsWake
  <2>1. /\ pc' = [pc EXCEPT ![r] = "wake"] /\ want' = [want EXCEPT ![r] = n]
        /\ r \in DOMAIN pc /\ r \in DOMAIN want
    BY <1>2 DEF Release, SemaphoreInv, SemaphoreTypeOK
  <2>2. /\ pc'[r] = "wake" /\ want'[r] = n
        /\ \A t \in (Acquirer \cup Releaser) \ {r} : pc'[t] = pc[t] /\ want'[t] = want[t]
    BY <2>1 DEF SemaphoreInv, SemaphoreTypeOK
  <2>3. Singles' = Singles /\ (ASingleSleeps' <=> ASingleSleeps)
    BY <1>1, <2>2 DEF Singles, ASingleSleeps, Asleep
  <2>4. Cardinality(Owed') = Cardinality(Owed) + n
    <3>1. Owed' = Owed \cup Share(r, n) /\ Owed \cap Share(r, n) = {}
      <4>1. \A p \in Owed' : p \in Owed \cup Share(r, n)
        BY <2>2 DEF Owed, Share
      <4>2. \A p \in Owed \cup Share(r, n) : p \in Owed'
        BY <1>1, <2>2 DEF Owed, Share
      <4>3. \A p \in Owed : p \notin Share(r, n)
        BY <1>1 DEF Owed, Share
      <4> QED
        BY <4>1, <4>2, <4>3
    <3>2. IsFiniteSet(Share(r, n)) /\ Cardinality(Share(r, n)) = n
      BY <1>1, ShareIs
    <3>3. Cardinality(Owed \cup Share(r, n))
            = Cardinality(Owed) + n - Cardinality(Owed \cap Share(r, n))
      BY <3>2, OwedIsFinite, FS_Union
    <3>4. Cardinality(Owed \cap Share(r, n)) = 0 /\ Cardinality(Owed) \in Nat
      BY <3>1, OwedIsFinite, FS_EmptySet
    <3>5. Cardinality(Owed') = Cardinality(Owed \cup Share(r, n))
      BY <3>1, Zenon
    <3> QED
      BY <1>1, <3>3, <3>4, <3>5
  <2>5. ASingleSleeps' => u'.tokens <= Cardinality(Singles') + Cardinality(Owed')
    BY <1>1, <2>3, <2>4, OwedIsFinite DEF SinglesInv
  <2>6. \A q \in Releaser : pc'[q] = "wake" => want'[q] <= MaxTokens
    BY <1>1, <2>2 DEF SinglesInv
  <2>7. \A b \in Acquirer : /\ pc'[b] \in {"add", "sleep"} /\ want'[b] = 1 => cur'[b].tokens = 0
                            /\ pc'[b] = "mark" => want'[b] # 1
    BY <1>1, <2>2 DEF SinglesInv
  <2> QED
    BY <2>5, <2>6, <2>7 DEF SinglesInv
<1>3. CASE ~futexNeedsWake
  <2>1. Announced = {}
    BY <1>1, <1>3, AnnouncedIsFinite DEF futexNeedsWake, SemaphoreInv, WaitersAreCounted, Word
  <2>2. ~ASingleSleeps
    BY <2>1 DEF ASingleSleeps, Asleep, Announced, Waiting
  <2>3. UNCHANGED <<pc, want, cur>>
    BY <1>3 DEF Release
  <2>4. ~ASingleSleeps'
    BY <2>2, <2>3 DEF ASingleSleeps, Asleep
  <2> QED
    BY <2>3, <2>4 DEF SinglesInv
<1> QED
  BY <1>2, <1>3

LEMMA WakeKeepsSingles ==
  ASSUME SemaphoreInv, SinglesInv, IsFiniteSet(Releaser), HasWaiterCount,
         NEW r \in Releaser, Wake(r)
  PROVE  SinglesInv'
<1>. DEFINE single == {a \in Asleep : want[a] = 1}
<1>1. PICK n \in Nat : n = want[r] /\ n <= MaxTokens
  BY DEF SemaphoreInv, SemaphoreTypeOK, SinglesInv, Wake
<1>2. PICK T \in SUBSET single :
        /\ Cardinality(T) = IF n < Cardinality(single) THEN n ELSE Cardinality(single)
        /\ pc' = [t \in DOMAIN pc |->
                    IF t \in T \cup (Asleep \ single) THEN "awake"
                    ELSE IF t = r THEN "idle" ELSE pc[t]]
  <2>1. PICK S \in Woken(n) :
          pc' = [t \in DOMAIN pc |-> IF t \in S THEN "awake" ELSE IF t = r THEN "idle" ELSE pc[t]]
    BY <1>1 DEF Wake
  <2>. DEFINE k == IF n < Cardinality(single) THEN n ELSE Cardinality(single)
  <2>2. Woken(n) = {S1 \cup (Asleep \ single) : S1 \in kSubset(k, single)}
    BY DEF Woken
  <2>3. PICK T \in kSubset(k, single) : S = T \cup (Asleep \ single)
    BY <2>1, <2>2, Zenon
  <2>4. T \in SUBSET single /\ Cardinality(T) = k
    BY <2>3 DEF kSubset
  <2>5. pc' = [t \in DOMAIN pc |->
                 IF t \in T \cup (Asleep \ single) THEN "awake"
                 ELSE IF t = r THEN "idle" ELSE pc[t]]
    BY <2>1, <2>3, Zenon
  <2> QED
    BY <2>4, <2>5, Zenon
<1>3. /\ IsFiniteSet(single) /\ Cardinality(single) \in Nat /\ single \subseteq Acquirer
      /\ \A a \in single : pc[a] = "asleep" /\ want[a] = 1
  <2>1. single \in SUBSET Acquirer
    BY DEF Asleep
  <2> QED
    BY <2>1, SemaphoreAssumption, FS_Subset, FS_CardinalityType DEF Asleep
<1>4. /\ pc[r] = "wake" /\ want' = [want EXCEPT ![r] = 0] /\ UNCHANGED <<u, cur>>
      /\ DOMAIN pc = Acquirer \cup Releaser /\ DOMAIN want = Acquirer \cup Releaser
      /\ u.tokens \in Nat /\ MaxTokens \in Nat
  BY SemaphoreAssumption DEF Wake, SemaphoreInv, SemaphoreTypeOK, Word
<1>5. /\ pc'[r] = "idle" /\ want'[r] = 0
      /\ \A t \in (Acquirer \cup Releaser) \ {r} :
           /\ want'[t] = want[t]
           /\ pc'[t] = IF t \in T \cup (Asleep \ single) THEN "awake" ELSE pc[t]
  <2>1. r \notin T \cup (Asleep \ single)
    BY <1>3, <1>4 DEF Asleep
  <2> QED
    BY <1>2, <1>4, <2>1
<1>6. Singles' = Singles \cup T /\ Singles \cap T = {}
  <2>1. \A a \in Singles : a # r /\ a \in Singles' /\ a \notin T
    BY <1>3, <1>4, <1>5 DEF Singles, Asleep
  <2>2. \A a \in T : a \in Singles'
    BY <1>3, <1>4, <1>5 DEF Singles
  <2>3. \A a \in Singles' : a \in Singles \cup T
    BY <1>3, <1>4, <1>5 DEF Singles, Asleep
  <2> QED
    BY <2>1, <2>2, <2>3
<1>7. ASSUME ASingleSleeps'
      PROVE  u.tokens <= Cardinality(Singles') + Cardinality(Owed')
  <2>1. PICK a \in Acquirer : pc'[a] = "asleep" /\ want'[a] = 1
    BY <1>7 DEF ASingleSleeps, Asleep
  <2>2. a \in single /\ a \notin T
    BY <1>5, <2>1 DEF Asleep
  <2>3. IsFiniteSet(T) /\ Cardinality(T) = n
    <3>1. T # single
      BY <2>2
    <3>2. IsFiniteSet(T) /\ Cardinality(T) # Cardinality(single)
      BY <1>3, <3>1, FS_Subset
    <3> QED
      BY <1>2, <3>2
  <2>4. Cardinality(Singles') = Cardinality(Singles) + n
    <3>1. Cardinality(Singles \cup T)
            = Cardinality(Singles) + Cardinality(T) - Cardinality(Singles \cap T)
      BY <2>3, OwedIsFinite, FS_Union
    <3>2. Cardinality(Singles \cap T) = 0 /\ Cardinality(Singles) \in Nat
      BY <1>6, OwedIsFinite, FS_EmptySet
    <3>3. Cardinality(Singles') = Cardinality(Singles \cup T)
      BY <1>6, Zenon
    <3> QED
      BY <1>1, <2>3, <3>1, <3>2, <3>3
  <2>5. Cardinality(Owed) = Cardinality(Owed') + n /\ Cardinality(Owed') \in Nat
    <3>1. Owed' = Owed \ Share(r, n) /\ Owed \cap Share(r, n) = Share(r, n)
      <4>1. \A p \in Releaser \X (1..MaxTokens) :
              p \in Owed' <=> (p[1] # r /\ p \in Owed)
        <5>. SUFFICES ASSUME NEW p \in Releaser \X (1..MaxTokens)
                      PROVE  p \in Owed' <=> (p[1] # r /\ p \in Owed)
          OBVIOUS
        <5>1. p[1] \in Releaser
          OBVIOUS
        <5>2. CASE p[1] = r
          BY <1>5, <5>2 DEF Owed
        <5>3. CASE p[1] # r
          <6>1. want'[p[1]] = want[p[1]] /\ (pc'[p[1]] = "wake" <=> pc[p[1]] = "wake")
            BY <1>3, <1>5, <5>1, <5>3 DEF Asleep
          <6> QED
            BY <5>3, <6>1 DEF Owed
        <5> QED
          BY <5>2, <5>3
      <4>2. \A p \in Owed : p \in Releaser \X (1..MaxTokens) /\ (p[1] = r => p \in Share(r, n))
        BY <1>1 DEF Owed, Share
      <4>3. \A p \in Owed' : p \in Releaser \X (1..MaxTokens)
        BY DEF Owed
      <4>4. \A p \in Share(r, n) : p[1] = r /\ p \in Owed
        BY <1>1, <1>4 DEF Owed, Share
      <4> QED
        BY <4>1, <4>2, <4>3, <4>4
    <3>2. IsFiniteSet(Share(r, n)) /\ Cardinality(Share(r, n)) = n
      BY <1>1, ShareIs
    <3>3. /\ IsFiniteSet(Owed \ Share(r, n))
          /\ Cardinality(Owed \ Share(r, n))
               = Cardinality(Owed) - Cardinality(Owed \cap Share(r, n))
      BY OwedIsFinite, FS_Difference
    <3>4. Cardinality(Owed \ Share(r, n)) \in Nat
      BY <3>3, FS_CardinalityType
    <3>5. Cardinality(Owed') = Cardinality(Owed \ Share(r, n))
      BY <3>1, Zenon
    <3>6. Cardinality(Owed \cap Share(r, n)) = n /\ Cardinality(Owed) \in Nat
      BY <3>1, <3>2, OwedIsFinite, Zenon
    <3> QED
      BY <1>1, <3>3, <3>4, <3>5, <3>6
  <2>6. ASingleSleeps
    BY <1>3, <2>2 DEF ASingleSleeps
  <2>7. u.tokens <= Cardinality(Singles) + Cardinality(Owed)
    BY <2>6 DEF SinglesInv
  <2> QED
    BY <1>1, <2>4, <2>5, <2>7, OwedIsFinite
<1>8. \A q \in Releaser : pc'[q] = "wake" => want'[q] <= MaxTokens
  BY <1>5 DEF SinglesInv
<1>9. \A b \in Acquirer : /\ pc'[b] \in {"add", "sleep"} /\ want'[b] = 1 => cur'[b].tokens = 0
                          /\ pc'[b] = "mark" => want'[b] # 1
  BY <1>4, <1>5 DEF SinglesInv
<1> QED
  BY <1>4, <1>7, <1>8, <1>9 DEF SinglesInv

LEMMA SinglesStep ==
  ASSUME SemaphoreInv, SinglesInv, IsFiniteSet(Releaser), HasWaiterCount, [Next]_vars
  PROVE  SinglesInv'
<1>1. /\ SemaphoreTypeOK /\ u \in Word /\ u.tokens \in Nat /\ (\A n : CounterPart(n) = n)
      /\ \A n : Marks(n) <=> n > 1
  BY DEF SemaphoreInv, SemaphoreTypeOK, Word, CounterPart, Marks
<1>2. ASSUME NEW a \in Acquirer, NEW n \in Nat, NEW w \in {0, 1}, Take(a, n, w),
             pc[a] # "wake", a \in Singles => n = 1
      PROVE  SinglesInv'
  <2>1. /\ u'.tokens = u.tokens - n /\ u.tokens >= n /\ pc'[a] = "idle"
        /\ \A t \in (Acquirer \cup Releaser) \ {a} : pc'[t] = pc[t] /\ want'[t] = want[t]
        /\ \A b \in Acquirer \ {a} : cur'[b] = cur[b]
    BY <1>1, <1>2 DEF Take, Return, SemaphoreTypeOK, Word
  <2>2. u'.tokens \in Nat /\ u'.tokens <= u.tokens
        /\ (a \in Singles => u'.tokens + 1 <= u.tokens)
    BY <1>1, <1>2, <2>1
  <2> QED
    BY <1>1, <1>2, <2>1, <2>2, AcquirerKeepsSingles
<1>3. ASSUME NEW a \in Acquirer, NEW n \in Amount, NEW t \in BOOLEAN, Acquire(a, n, t)
      PROVE  SinglesInv'
  <2>1. pc[a] = "idle" /\ a \notin Singles /\ n \in Nat
    BY <1>3, SemaphoreAssumption DEF Acquire, Singles
  <2>2. CASE Take(a, n, 0)
    BY <1>2, <2>1, <2>2
  <2>3. CASE ~Take(a, n, 0)
    <3>1. /\ u.tokens < n /\ UNCHANGED u /\ pc' = [pc EXCEPT ![a] = "add"]
          /\ want' = [want EXCEPT ![a] = n] /\ cur' = [cur EXCEPT ![a] = Half(u, n)]
      BY <1>3, <2>3 DEF Acquire
    <3>2. n = 1 => Half(u, n).tokens = 0
      BY <1>1, <3>1 DEF Half, NoWord
    <3> QED
      BY <1>1, <2>1, <3>1, <3>2, AcquirerKeepsSingles DEF SemaphoreTypeOK
  <2> QED
    BY <2>2, <2>3
<1>4. ASSUME NEW a \in Acquirer, AddWaiter(a)
      PROVE  SinglesInv'
  <2>1. /\ pc[a] = "add" /\ a \notin Singles /\ u'.tokens = u.tokens
        /\ cur'[a].tokens = cur[a].tokens /\ want' = want
        /\ pc' = [pc EXCEPT ![a] = Announce(want[a])]
        /\ \A b \in Acquirer \ {a} : cur'[b] = cur[b]
    BY <1>1, <1>4 DEF AddWaiter, Singles, SemaphoreTypeOK, Word
  <2>2. Announce(want[a]) \in {"mark", "sleep"} /\ (want[a] = 1 => Announce(want[a]) = "sleep")
    BY <1>1 DEF Announce
  <2> QED
    BY <1>1, <2>1, <2>2, AcquirerKeepsSingles DEF SemaphoreTypeOK, SinglesInv
<1>5. ASSUME NEW a \in Acquirer, Mark(a)
      PROVE  SinglesInv'
  <2>1. u'.tokens = u.tokens /\ pc[a] = "mark" /\ a \notin Singles /\ want[a] # 1
    BY <1>1, <1>5 DEF Mark, SemaphoreTypeOK, Word, Singles, SinglesInv
  <2> QED
    BY <1>1, <1>5, <2>1, AcquirerKeepsSingles DEF Mark, SemaphoreTypeOK
<1>6. ASSUME NEW a \in Acquirer, FutexWait(a)
      PROVE  SinglesInv'
  <2>1. pc'[a] = "asleep" /\ want[a] = 1 => u.tokens = 0
    <3>1. pc'[a] = "asleep" => Half(u, want[a]) = cur[a]
      BY <1>6 DEF FutexWait, SemaphoreTypeOK
    <3>2. want[a] = 1 => Half(u, want[a]).tokens = u.tokens
      BY DEF Half, NoWord
    <3> QED
      BY <1>6, <3>1, <3>2 DEF FutexWait, SinglesInv
  <2>2. pc'[a] \in {"asleep", "awake"} /\ UNCHANGED <<u, want>> /\ pc[a] = "sleep"
        /\ a \notin Singles
    BY <1>1, <1>6 DEF FutexWait, SemaphoreTypeOK, Singles
  <2> QED
    BY <1>1, <1>6, <2>1, <2>2, AcquirerKeepsSingles DEF FutexWait, SemaphoreTypeOK
<1>7. ASSUME NEW a \in Acquirer, Interrupt(a)
      PROVE  SinglesInv'
  <2>1. a \notin Singles /\ pc[a] = "asleep"
    BY <1>7 DEF Interrupt, Singles
  <2> QED
    BY <1>1, <1>7, <2>1, AcquirerKeepsSingles DEF Interrupt, SemaphoreTypeOK
<1>8. ASSUME NEW a \in Acquirer, Retry(a)
      PROVE  SinglesInv'
  <2>1. pc[a] = "awake" /\ want[a] \in Nat /\ (a \in Singles <=> want[a] = 1)
    BY <1>1, <1>8 DEF Retry, SemaphoreTypeOK, Singles
  <2>2. CASE Take(a, want[a], 1)
    BY <1>2, <2>1, <2>2
  <2>3. CASE ~Take(a, want[a], 1)
    <3>1. /\ u.tokens < want[a] /\ UNCHANGED <<u, want>>
          /\ pc' = [pc EXCEPT ![a] = Announce(want[a])]
          /\ cur' = [cur EXCEPT ![a] = Half(u, want[a])]
      BY <1>8, <2>3 DEF Retry
    <3>2. /\ Announce(want[a]) \in {"mark", "sleep"} /\ (want[a] = 1 => Announce(want[a]) = "sleep")
          /\ (want[a] = 1 => u.tokens = 0 /\ Half(u, want[a]).tokens = 0)
      BY <1>1, <3>1 DEF Announce, Half, NoWord
    <3> QED
      BY <1>1, <2>1, <3>1, <3>2, AcquirerKeepsSingles DEF SemaphoreTypeOK
  <2> QED
    BY <2>2, <2>3
<1>9. ASSUME NEW a \in Acquirer, Expire(a)
      PROVE  SinglesInv'
  <2>1. /\ pc[a] \in {"asleep", "awake"} /\ UNCHANGED <<u, want>> /\ pc'[a] = "leave"
        /\ (a \in Singles => u.tokens = 0)
    BY <1>1, <1>9 DEF Expire, Singles, SemaphoreTypeOK
  <2> QED
    BY <1>1, <1>9, <2>1, AcquirerKeepsSingles DEF Expire, SemaphoreTypeOK
<1>10. ASSUME NEW a \in Acquirer, Leave(a)
       PROVE  SinglesInv'
  <2>1. pc[a] = "leave" /\ a \notin Singles /\ u'.tokens = u.tokens /\ pc'[a] = "idle"
    BY <1>1, <1>10 DEF Leave, Return, SemaphoreTypeOK, Word, Singles
  <2> QED
    BY <1>1, <1>10, <2>1, AcquirerKeepsSingles DEF Leave, Return, SemaphoreTypeOK
<1>11. CASE UNCHANGED vars
  BY <1>11 DEF vars, SinglesInv, ASingleSleeps, Asleep, Singles, Owed
<1> QED
  BY <1>3, <1>4, <1>5, <1>6, <1>7, <1>8, <1>9, <1>10, <1>11,
     ReleaseKeepsSingles, WakeKeepsSingles DEF Next, Step

\* No wakeup of a thread that waits for one token is lost, in both layouts of
\* the word and for any amounts: while such a thread sleeps beside a token, a
\* release is about to wake it, or for each token one of them is awake.
THEOREM NoSingleIsForgotten ==
  ASSUME IsFiniteSet(Releaser)
  PROVE  Spec => []SinglesAreWoken
<1>1. Init => SinglesInv
  BY DEF Init, SinglesInv, ASingleSleeps, Asleep, SemaphoreTypeOK
<1>2. SemaphoreInv /\ (HasWaiterCount => SinglesInv) /\ [Next]_vars
        => (HasWaiterCount => SinglesInv)'
  BY SinglesStep
<1>3. SemaphoreInv /\ (HasWaiterCount => SinglesInv) /\ (~HasWaiterCount => SleepersAreWoken)
        => SinglesAreWoken
  <2>. SUFFICES ASSUME SemaphoreInv, HasWaiterCount => SinglesInv,
                       ~HasWaiterCount => SleepersAreWoken,
                       NEW a \in Asleep, want[a] = 1, u.tokens >= 1
                PROVE  WakeIsDue(a)
    BY DEF SinglesAreWoken
  <2>1. CASE ~HasWaiterCount
    BY <2>1 DEF SleepersAreWoken
  <2>2. CASE HasWaiterCount
    <3>. SUFFICES ASSUME \A r \in Releaser : pc[r] # "wake"
                  PROVE  WakeIsDue(a)
      BY DEF WakeIsDue
    <3>1. Cardinality(Owed) = 0
      <4>1. Owed = {}
        BY DEF Owed
      <4> QED
        BY <4>1, FS_EmptySet
    <3>2. u.tokens <= Cardinality(Singles) + Cardinality(Owed)
      BY <2>2 DEF SinglesInv, ASingleSleeps
    <3>3. Cardinality(Singles) >= u.tokens
      BY <3>1, <3>2, OwedIsFinite DEF SemaphoreInv, SemaphoreTypeOK, Word
    <3> QED
      BY <2>2, <3>3 DEF WakeIsDue, Singles
  <2> QED
    BY <2>1, <2>2
<1> QED
  BY <1>1, <1>2, <1>3, SemaphoreInvariant, NoWakeupLostWithoutCounter, PTL DEF Spec
=============================================================================
