-------------------------------- MODULE Latch --------------------------------
(***************************************************************************)
(* QLatch, src/corelib/thread/qlatch_p.h and qlatch.cpp, on a futex.       *)
(*                                                                         *)
(* The counter is one atomic integer; its high bit says that nobody waits  *)
(* yet, so that only a latch that drops to zero with waiters is zero as a  *)
(* whole.  An atomic operation is a step.                                  *)
(***************************************************************************)
EXTENDS Naturals

CONSTANTS
  Thread,
  Expected  \* the argument of the constructor

VARIABLES
  counter,  \* the integer: what is pending, and the bit NoWaiters
  pc,       \* where a thread stands
  current,  \* what a waiting thread last read of the pending part
  passed    \* history: threads that have returned from a wait

vars == <<counter, pc, current, passed>>

Counter == [pending : 0..Expected, noWaiters : BOOLEAN]

\* "mark": about to clear the bit; "look": has cleared it, where the compiler
\* has no atomic and-fetch; "wait": about to call futexWait; "asleep": in it;
\* "load": back from it; "wake" and "arrived": about to call futexWakeAll, the
\* latter in arriveAndWait; "begin": there, about to wait.
LatchTypeOK ==
  /\ counter \in Counter
  /\ pc \in [Thread -> {"idle", "mark", "look", "wait", "asleep", "load", "wake", "arrived", "begin"}]
  /\ current \in [Thread -> 0..Expected]
  /\ passed \subseteq Thread

Init ==
  /\ counter = [pending |-> Expected, noWaiters |-> TRUE]
  /\ pc = [t \in Thread |-> "idle"]
  /\ current = [t \in Thread |-> 0]
  /\ passed = {}

Goes(t, l) == pc' = [pc EXCEPT ![t] = l]

\* The wait returns.
Pass(t) ==
  /\ Goes(t, "idle")
  /\ current' = [current EXCEPT ![t] = 0]
  /\ passed' = passed \cup {t}

\* Nothing is pending, or the wait goes on with what has been read.
PassOr(t, l) ==
  /\ IF counter.pending = 0 THEN Pass(t)
     ELSE /\ Goes(t, l)
          /\ current' = [current EXCEPT ![t] = counter.pending]
          /\ UNCHANGED passed
  /\ UNCHANGED counter

\* wait(): the load, and waitInternal() when something is pending.
Wait(t) ==
  /\ pc[t] \in {"idle", "begin"}
  /\ PassOr(t, IF counter.noWaiters THEN "mark" ELSE "wait")

\* fetchAndSub(n) has returned n: the integer is zero now.
NeedsWakeUp(n) == counter = [pending |-> n, noWaiters |-> FALSE]

\* countDown(n), and the first half of arriveAndWait(n).  To count more than is
\* pending is undefined.
CountDown(t, n, thenWaits) ==
  /\ pc[t] = "idle"
  /\ n <= counter.pending
  /\ counter' = [counter EXCEPT !.pending = @ - n]
  /\ Goes(t, IF NeedsWakeUp(n) THEN (IF thenWaits THEN "arrived" ELSE "wake")
             ELSE IF thenWaits THEN "begin" ELSE "idle")
  /\ UNCHANGED <<current, passed>>

\* The bit is cleared; with __atomic_and_fetch the result is looked at in the
\* same step, otherwise in another one.
Mark(t) ==
  /\ pc[t] = "mark"
  /\ counter' = [counter EXCEPT !.noWaiters = FALSE]
  /\ \/ counter.pending = 0 /\ Pass(t)
     \/ counter.pending # 0 /\ Goes(t, "wait") /\ UNCHANGED <<current, passed>>
     \/ Goes(t, "look") /\ UNCHANGED <<current, passed>>

Look(t) ==
  /\ pc[t] = "look"
  /\ IF counter.pending = 0 THEN Pass(t) ELSE Goes(t, "wait") /\ UNCHANGED <<current, passed>>
  /\ UNCHANGED counter

FutexWait(t) ==
  /\ pc[t] = "wait"
  /\ Goes(t, IF counter = [pending |-> current[t], noWaiters |-> FALSE] THEN "asleep" ELSE "load")
  /\ UNCHANGED <<counter, current, passed>>

\* A signal ends the futex call.
Interrupt(t) ==
  /\ pc[t] = "asleep"
  /\ Goes(t, "load")
  /\ UNCHANGED <<counter, current, passed>>

\* The load at the end of the loop.
Load(t) == pc[t] = "load" /\ PassOr(t, "wait")

\* wakeUp(): futexWakeAll
WakeUp(t) ==
  /\ pc[t] \in {"wake", "arrived"}
  /\ pc' = [s \in Thread |-> IF s = t THEN (IF pc[t] = "wake" THEN "idle" ELSE "begin")
                            ELSE IF pc[s] = "asleep" THEN "load" ELSE pc[s]]
  /\ UNCHANGED <<counter, current, passed>>

Next ==
  \E t \in Thread :
    \/ \E n \in 0..Expected, thenWaits \in BOOLEAN : CountDown(t, n, thenWaits)
    \/ Wait(t) \/ Mark(t) \/ Look(t) \/ FutexWait(t) \/ Interrupt(t) \/ Load(t) \/ WakeUp(t)

Spec == Init /\ [][Next]_vars
-----------------------------------------------------------------------------
\* Nobody passes before the count has dropped to zero, and whoever sleeps when
\* it has is about to be woken: the thread that waits clears the bit before it
\* sleeps, and the one that counts down looks at the bit with the count.
NobodyPassesEarly == passed # {} => counter.pending = 0

NobodySleepsOn ==
  counter.pending = 0 /\ (\E t \in Thread : pc[t] = "asleep")
    => \E t \in Thread : pc[t] \in {"wake", "arrived"}

LatchIsSound == LatchTypeOK /\ NobodyPassesEarly /\ NobodySleepsOn
=============================================================================
