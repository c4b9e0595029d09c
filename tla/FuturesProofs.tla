---------------------------- MODULE FuturesProofs ----------------------------
(***************************************************************************)
(* What holds of a future and of a chain of futures, whatever the number   *)
(* of results, the length of the chain and the threads that cancel it: a   *)
(* suspended future is quiet, and the continuations of a chain are run     *)
(* once and, once they were cancelled, not at all.                         *)
(***************************************************************************)
EXTENDS Futures, TLAPS

-----------------------------------------------------------------------------
\* Between the announcement that the computation is suspended and a call that
\* resumes or cancels it, no result appears and the worker stays where it is
\* (suspendIfRequested, setSuspended, cancelImpl and setThrottled,
\* qfutureinterface.cpp).  Only a step that takes the flags away wakes a
\* worker that is paused.
THEOREM SuspendedStaysQuiet == Spec => SuspendedIsQuiet
<1>1. ASSUME Next, worker = "paused", state' \cap Paused # {}
      PROVE  worker' = "paused" /\ store' = store
  <2>1. CASE Cancel
    <3>1. state' = (state \ Paused) \cup {"Canceled"}
          \/ state' = (state \ Paused) \cup {"Canceled"} \cup {"Throttled"}
      BY <2>1 DEF Cancel, CallOut, Post
    <3> QED
      BY <1>1, <3>1 DEF Paused
  <2>2. CASE Resume
    BY <1>1, <2>2 DEF Resume
  <2>3. CASE Unthrottle
    <3>1. state \cap Paused # {}
      BY <1>1, <2>3 DEF Unthrottle
    <3> QED
      BY <1>1, <2>3, <3>1 DEF Unthrottle, reporting
  <2>4. CASE Suspend
    BY <1>1, <2>4 DEF Suspend, reporting
  <2>5. CASE Connect
    BY <1>1, <2>5 DEF Connect, reporting
  <2>6. CASE TakeEvent \/ ResetPending \/ Disconnect
    BY <1>1, <2>6 DEF TakeEvent, ResetPending, Disconnect, reporting
  <2>7. CASE \E t \in Waiter : Check(t) \/ \E goal \in Goals : Call(t, goal)
    BY <1>1, <2>7 DEF Check, Call, reporting
  <2>8. worker \notin {"new", "poll", "report", "throwing", "threw"}
    BY <1>1
  <2> QED
    BY <1>1, <2>1, <2>2, <2>3, <2>4, <2>5, <2>6, <2>7, <2>8
       DEF Next, Watching, Ending, ReportStarted, SuspendIfRequested, ReportSome, ClearResults,
           ReportException, ReportFinished, Destroy
<1>2. ASSUME UNCHANGED vars, worker = "paused"
      PROVE  worker' = "paused" /\ store' = store
  BY <1>2 DEF vars, reporting
<1> QED
  BY <1>1, <1>2, PTL DEF Spec, SuspendedIsQuiet

-----------------------------------------------------------------------------
(* The chain of futures, instance C of FutureChain.                        *)

Continuation == 1..Depth

\* Where a future stands before it has finished.
Early == {"none", "execute", "running", "cancel"}
Standing == Early \cup {"continue", "calling", "clean", "done"}

\* The continuations that have been attached and linked.
IsAttached(j) == j \in Continuation /\ j < attach.next

CallRecord ==
  [at : {"out", "flag", "walk", "mark", "chain", "up", "upper"}, way : Ways \cup {"cancel"},
   of : C!Future \cup {C!None}, cur : C!Future \cup {C!None}, span : SUBSET Continuation]

ChainTypeOK ==
  /\ canceled \subseteq C!Future /\ finished \subseteq C!Future
  /\ mark \in [C!Future -> {"Default", "Canceled", "Cleaned"}]
  /\ kind \in [C!Future -> {"Unknown", "Then", "OnCanceled"}]
  /\ pc \in [C!Future -> Standing]
  /\ attach \in [next : 1..Depth + 1, at : {"out", "inline"}]
  /\ call \in [C!Actor -> CallRecord]
  /\ launched \in [C!Future -> {0, 1}]

\* Which continuations have been launched: those up to some future, each once
\* and after its parent had finished.
LaunchInv ==
  /\ pc[0] \notin {"none", "execute"}
  /\ \A f \in C!Future : pc[f] \notin Early => f \in finished
  /\ \A f \in finished : pc[f] # "none"
  /\ \A j \in Continuation : launched[j] = IF pc[j] = "none" THEN 0 ELSE 1
  /\ \A j \in Continuation : pc[j] # "none" => j - 1 \in finished \cap executed
  /\ \A i, j \in Continuation : i <= j /\ pc[i] = "none" => pc[j] = "none"
  /\ \A j \in Continuation : j > attach.next => pc[j] = "none"
  /\ attach.next \in Continuation => (pc[attach.next] = "none" <=> attach.at = "out")
  /\ attach.at = "inline" => attach.next \in Continuation

\* What links the futures: a continuation that waits is stored with its parent
\* and linked to it both ways, and one that runs is called by its parent.
LinkInv ==
  /\ \A f \in stored \cup data : f \in C!Future /\ f + 1 < attach.next
  /\ \A f \in executed : f + 1 \in Continuation /\ pc[f + 1] # "none"
  /\ \A f \in C!Future : pc[f] = "calling" => f \in executed /\ f + 1 < attach.next
  /\ \A f \in C!Future : mark[f] = "Cleaned" => pc[f] = "done"
  /\ \A f \in C!Future : f + 1 < attach.next /\ pc[f] # "done" => f \in data
  /\ \A j \in Continuation : IsAttached(j) /\ pc[j] = "none" => j - 1 \in stored /\ j \in parent
  /\ \A j \in Continuation :
       IsAttached(j) /\ pc[j] \notin {"none", "done"} => pc[j - 1] = "calling"
  /\ \A f \in C!Future, j \in Continuation :
       f < j /\ IsAttached(j) /\ pc[f] \in {"clean", "done"} => pc[j] = "done"

\* What isChainCanceled() of the parent answers, and so who may still be run.
Covered(j) == j - 1 \in canceled \/ mark[j - 1] = "Canceled"
Runnable(j) == pc[j] \in {"none", "execute"} /\ ~Covered(j)

\* A call that cancels has the continuation j still ahead.
Ahead(a, j) ==
  LET f == call[a].of
      c == call[a].cur
  IN \/ call[a].at = "chain"
     \/ call[a].at = "up" /\ (j > f \/ (c # C!None /\ j <= c + 1))
     \/ call[a].at = "upper" /\ (j > f \/ j <= c)
     \/ call[a].at = "flag" /\ j > f
     \/ call[a].at = "walk" /\ j > f + 1
     \/ call[a].at = "mark" /\ c # C!None /\ f < c /\ c < j

\* A call has reached, or has ahead, every continuation that it is to stop.
CallSound(a) ==
  LET f == call[a].of
      c == call[a].cur
  IN /\ call[a].at # "out" => f \in C!Future
     /\ call[a].at \in {"walk", "mark"} => f \in canceled
     /\ call[a].at \in {"up", "upper"} => c <= f
     /\ call[a].at = "upper" => c \in canceled
     /\ call[a].at # "out" => \A j \in call[a].span :
          /\ IsAttached(j) /\ f < attach.next
          /\ kind[j] = "Then" /\ \A i \in f + 1..j : kind[i] = "Then"
          /\ pc[j] = "none" /\ Runnable(j) => Ahead(a, j)

\* What was stopped will be skipped.
StopInv ==
  /\ \A j \in stopped : IsAttached(j) /\ kind[j] = "Then" /\ j \notin ran /\ ~Runnable(j)
  /\ \A j \in ran : /\ j \in Continuation /\ pc[j] \notin {"none", "execute"}
                    /\ kind[j] = "OnCanceled" => j - 1 \in canceled

ChainInv ==
  ChainTypeOK /\ LaunchInv /\ LinkInv /\ (\A a \in C!Actor : CallSound(a)) /\ StopInv

Shape == ChainTypeOK /\ LaunchInv /\ LinkInv

\* What no step undoes, whoever takes it: who was executed or, once attached,
\* launched or covered does not come back, and continuations stay what they are.
Calm ==
  /\ canceled \subseteq canceled' /\ attach'.next \in 1..Depth + 1 /\ attach.next <= attach'.next
  /\ \A j \in Continuation : IsAttached(j) \/ pc[j] # "none" => kind'[j] = kind[j]
  /\ \A j \in Continuation : pc'[j] \in {"none", "execute"} => pc[j] \in {"none", "execute"}
  /\ \A j \in Continuation :
       IsAttached(j) /\ Runnable(j)' => Runnable(j) /\ (pc'[j] = "none" => pc[j] = "none")

LEMMA RunKeepsShape ==
  ASSUME Shape, NEW f \in C!Future, C!RunContinuation(f)
  PROVE  Shape' /\ Calm
<1> USE ChainAssumption DEF C!Future, C!None, Continuation
<1>1. /\ ChainTypeOK /\ pc[f] = "continue" /\ f \in stored /\ f \notin executed
      /\ executed' = executed \cup {f} /\ stored' = stored \ {f}
      /\ UNCHANGED <<data, mark, kind, canceled, finished, attach, call>>
  BY DEF Shape, C!RunContinuation, C!IsDue, C!flags
<1>0. /\ pc' = [pc EXCEPT ![f] = "calling", ![f + 1] = "execute"]
      /\ launched' = [launched EXCEPT ![f + 1] = @ + 1]
  BY DEF C!RunContinuation
<1>2. /\ f + 1 \in Continuation /\ IsAttached(f + 1) /\ f \in data /\ f + 1 \in parent
      /\ pc[f + 1] = "none" /\ launched[f + 1] = 0 /\ f \in finished
      /\ attach.next \in 1..Depth + 1 /\ f + 1 < attach.next
  <2>1. f + 1 \in Continuation /\ IsAttached(f + 1)
    BY <1>1 DEF Shape, LinkInv, ChainTypeOK, IsAttached, Continuation
  <2>2. f \in finished /\ f \in data
    BY <1>1, <2>1 DEF Shape, LaunchInv, LinkInv, Early, IsAttached
  <2>3. pc[f + 1] # "done"
    BY <1>1, <2>1 DEF Shape, LaunchInv, LinkInv
  <2>4. pc[f + 1] = "none"
    BY <1>1, <2>1, <2>3 DEF Shape, LinkInv
  <2> QED
    BY <2>1, <2>2, <2>4 DEF Shape, ChainTypeOK, LaunchInv, LinkInv, IsAttached
<1>3. parent' = parent \ {f + 1}
  BY <1>2 DEF C!RunContinuation, C!Child
<1>4. /\ pc'[f] = "calling" /\ pc'[f + 1] = "execute" /\ launched'[f + 1] = 1
      /\ \A k \in 0..Depth : k # f + 1 => launched'[k] = launched[k]
      /\ \A k \in 0..Depth : k # f /\ k # f + 1 => pc'[k] = pc[k]
  BY <1>0, <1>1, <1>2 DEF ChainTypeOK
<1>5. ChainTypeOK'
  <2>1. pc' \in [C!Future -> Standing]
    BY <1>0, <1>1, <1>2 DEF ChainTypeOK, Standing, Early
  <2>2. launched' \in [C!Future -> {0, 1}]
    BY <1>0, <1>1, <1>2 DEF ChainTypeOK
  <2> QED
    BY <1>1, <2>1, <2>2 DEF ChainTypeOK
<1>6. LaunchInv'
  <2>1. \A i \in Continuation : i <= f => pc[i] # "none"
    BY <1>1, <1>2 DEF Shape, LaunchInv
  <2>2. \A j \in Continuation : launched'[j] = IF pc'[j] = "none" THEN 0 ELSE 1
    BY <1>1, <1>2, <1>4 DEF Shape, LaunchInv, ChainTypeOK
  <2>3. \A j \in Continuation : pc'[j] # "none" => j - 1 \in finished' \cap executed'
    BY <1>1, <1>2, <1>4 DEF Shape, LaunchInv
  <2>4. \A i, j \in Continuation : i <= j /\ pc'[i] = "none" => pc'[j] = "none"
    BY <1>1, <1>2, <1>4, <2>1 DEF Shape, LaunchInv
  <2>5. \A k \in C!Future : pc'[k] \notin Early => k \in finished'
    BY <1>1, <1>2, <1>4 DEF Shape, LaunchInv, Early
  <2>6. pc'[0] \notin {"none", "execute"}
    BY <1>1, <1>2, <1>4 DEF Shape, LaunchInv
  <2>7. \A j \in Continuation : j > attach'.next => pc'[j] = "none"
    BY <1>1, <1>2, <1>4 DEF Shape, LaunchInv, IsAttached
  <2>8. attach'.next \in Continuation => (pc'[attach'.next] = "none" <=> attach'.at = "out")
    BY <1>1, <1>2, <1>4 DEF Shape, LaunchInv, IsAttached
  <2>9. \A k \in finished' : pc'[k] # "none"
    <3>1. \A k \in finished : k \in 0..Depth /\ pc[k] # "none"
      BY <1>1 DEF Shape, LaunchInv, ChainTypeOK
    <3> QED
      BY <1>1, <1>4, <3>1
  <2> QED
    BY <1>1, <2>2, <2>3, <2>4, <2>5, <2>6, <2>7, <2>8, <2>9 DEF Shape, LaunchInv
<1>7. LinkInv'
  <2>1. \A k \in executed' : k + 1 \in Continuation /\ pc'[k + 1] # "none"
    BY <1>1, <1>2, <1>4 DEF Shape, LinkInv
  <2>2. \A k \in C!Future : pc'[k] = "calling" => k \in executed' /\ k + 1 < attach'.next
    BY <1>1, <1>2, <1>4 DEF Shape, LinkInv, IsAttached
  <2>3. \A j \in Continuation : IsAttached(j)' /\ pc'[j] = "none" => j - 1 \in stored' /\ j \in parent'
    BY <1>1, <1>2, <1>3, <1>4 DEF Shape, LinkInv, IsAttached
  <2>4. \A j \in Continuation : 
          IsAttached(j)' /\ pc'[j] \notin {"none", "done"} => pc'[j - 1] = "calling"
    <3> SUFFICES ASSUME NEW j \in Continuation, IsAttached(j), pc'[j] \notin {"none", "done"}
                 PROVE  pc'[j - 1] = "calling"
      BY <1>1 DEF IsAttached
    <3>1. CASE j = f + 1
      BY <1>4, <3>1
    <3>2. CASE j # f + 1
      <4>1. pc[j] \notin {"none", "done"} /\ j - 1 \in C!Future
        BY <1>1, <1>4, <3>2
      <4>2. pc[j - 1] = "calling"
        BY <4>1 DEF Shape, LinkInv
      <4> QED
        BY <1>1, <1>2, <1>4, <4>1, <4>2
    <3> QED
      BY <3>1, <3>2
  <2>5. \A k \in C!Future, j \in Continuation :
          k < j /\ IsAttached(j)' /\ pc'[k] \in {"clean", "done"} => pc'[j] = "done"
    <3> SUFFICES ASSUME NEW k \in C!Future, NEW j \in Continuation, k < j, IsAttached(j),
                        pc'[k] \in {"clean", "done"}
                 PROVE  pc'[j] = "done"
      BY <1>1 DEF IsAttached
    <3>1. pc[k] \in {"clean", "done"}
      BY <1>4
    <3>2. pc[j] = "done" /\ j \in C!Future
      BY <3>1 DEF Shape, LinkInv
    <3> QED
      BY <1>1, <1>2, <1>4, <3>2
  <2>6. \A k \in C!Future : mark'[k] = "Cleaned" => pc'[k] = "done"
    BY <1>1, <1>2, <1>4 DEF Shape, LinkInv
  <2> QED
    BY <1>1, <1>2, <1>4, <2>1, <2>2, <2>3, <2>4, <2>5, <2>6 DEF Shape, LinkInv
<1>8. Calm
  BY <1>1, <1>2, <1>4 DEF Calm, ChainTypeOK, Runnable, Covered
<1> QED
  BY <1>5, <1>6, <1>7, <1>8 DEF Shape

\* A step that launches nothing.
LEMMA LaunchStays ==
  ASSUME Shape, ChainTypeOK', launched' = launched, attach' = attach,
         executed \subseteq executed', finished \subseteq finished',
         \A k \in C!Future : pc'[k] = "none" <=> pc[k] = "none",
         \A k \in C!Future : pc'[k] \notin Early => k \in finished',
         \A k \in finished' : pc'[k] # "none",
         pc'[0] # "execute"
  PROVE  LaunchInv'
<1> USE ChainAssumption DEF C!Future, C!None, Continuation
<1>1. pc'[0] # "none"
  BY DEF Shape, LaunchInv
<1>2. \A i, j \in Continuation : i <= j /\ pc'[i] = "none" => pc'[j] = "none"
  BY DEF Shape, LaunchInv
<1>3. \A j \in Continuation : pc'[j] # "none" => j - 1 \in finished' \cap executed'
  BY DEF Shape, LaunchInv
<1>4. \A j \in Continuation : launched'[j] = IF pc'[j] = "none" THEN 0 ELSE 1
  BY DEF Shape, LaunchInv
<1>5. attach'.next \in Continuation => (pc'[attach'.next] = "none" <=> attach'.at = "out")
  BY DEF Shape, LaunchInv
<1>6. \A j \in Continuation : j > attach'.next => pc'[j] = "none"
  BY DEF Shape, LaunchInv
<1> QED
  BY <1>1, <1>2, <1>3, <1>4, <1>5, <1>6 DEF Shape, LaunchInv

\* A continuation is executed, skipped or not, and a future finishes.
LEMMA MoveKeepsShape ==
  ASSUME Shape, NEW f \in C!Future, pc[f] \in {"execute", "running", "cancel"},
         NEW v \in {"running", "cancel", "continue"}, pc' = [pc EXCEPT ![f] = v],
         finished \subseteq finished', finished' \subseteq finished \cup {f},
         v = "continue" => f \in finished', call' \in [C!Actor -> CallRecord],
         UNCHANGED <<stored, data, parent, executed, mark, kind, attach, launched, canceled>>
  PROVE  Shape' /\ Calm
<1> USE ChainAssumption DEF C!Future, C!None, Continuation
<1>1. ChainTypeOK /\ pc'[f] = v /\ \A k \in 0..Depth : k # f => pc'[k] = pc[k]
  BY DEF Shape, ChainTypeOK
<1>2. ChainTypeOK'
  <2>1. pc' \in [C!Future -> Standing]
    BY <1>1 DEF ChainTypeOK, Standing, Early
  <2> QED
    BY <1>1, <2>1 DEF ChainTypeOK
<1>3. LaunchInv'
  <2>1. \A k \in C!Future : pc'[k] = "none" <=> pc[k] = "none"
    BY <1>1
  <2>2. \A k \in C!Future : pc'[k] \notin Early => k \in finished'
    BY <1>1 DEF Shape, LaunchInv, Early
  <2>3. pc'[0] # "execute"
    BY <1>1 DEF Shape, LaunchInv
  <2>4. \A k \in finished' : pc'[k] # "none"
    BY <1>1 DEF Shape, LaunchInv, ChainTypeOK
  <2> QED
    BY <1>2, <2>1, <2>2, <2>3, <2>4, LaunchStays
<1>4. LinkInv'
  <2>1. \A k \in executed' : k + 1 \in Continuation /\ pc'[k + 1] # "none"
    BY <1>1 DEF Shape, LinkInv
  <2>2. \A k \in C!Future : pc'[k] = "calling" => k \in executed' /\ k + 1 < attach'.next
    BY <1>1 DEF Shape, LinkInv
  <2>3. \A k \in C!Future : mark'[k] = "Cleaned" => pc'[k] = "done"
    BY <1>1 DEF Shape, LinkInv
  <2>4. \A k \in C!Future : k + 1 < attach'.next /\ pc'[k] # "done" => k \in data'
    BY <1>1 DEF Shape, LinkInv
  <2>5. \A j \in Continuation : IsAttached(j)' /\ pc'[j] = "none" => j - 1 \in stored' /\ j \in parent'
    BY <1>1 DEF Shape, LinkInv, IsAttached
  <2>6. \A j \in Continuation :
          IsAttached(j)' /\ pc'[j] \notin {"none", "done"} => pc'[j - 1] = "calling"
    <3> SUFFICES ASSUME NEW j \in Continuation, IsAttached(j), pc'[j] \notin {"none", "done"}
                 PROVE  pc'[j - 1] = "calling"
      BY DEF IsAttached
    <3>1. pc[j] \notin {"none", "done"} /\ j - 1 \in C!Future
      BY <1>1
    <3>2. pc[j - 1] = "calling"
      BY <3>1 DEF Shape, LinkInv
    <3> QED
      BY <1>1, <3>1, <3>2
  <2>7. \A k \in C!Future, j \in Continuation :
          k < j /\ IsAttached(j)' /\ pc'[k] \in {"clean", "done"} => pc'[j] = "done"
    <3> SUFFICES ASSUME NEW k \in C!Future, NEW j \in Continuation, k < j, IsAttached(j),
                        pc'[k] \in {"clean", "done"}
                 PROVE  pc'[j] = "done"
      BY DEF IsAttached
    <3>1. pc[k] \in {"clean", "done"}
      BY <1>1
    <3>2. pc[j] = "done"
      BY <3>1 DEF Shape, LinkInv
    <3> QED
      BY <1>1, <3>2
  <2> QED
    BY <2>1, <2>2, <2>3, <2>4, <2>5, <2>6, <2>7 DEF Shape, LinkInv
<1>5. Calm
  BY <1>1 DEF Calm, ChainTypeOK, Runnable, Covered
<1> QED
  BY <1>2, <1>3, <1>4, <1>5 DEF Shape

\* What follows a future that is done with its continuation is done.
LEMMA NextIsDone ==
  ASSUME Shape, NEW f \in C!Future, IsAttached(f + 1) => pc[f + 1] = "done"
  PROVE  \A j \in Continuation : f < j /\ IsAttached(j) => pc[j] = "done"
<1> USE ChainAssumption DEF C!Future, C!None, Continuation
<1> SUFFICES ASSUME NEW j \in Continuation, f < j, IsAttached(j)
             PROVE  pc[j] = "done"
  OBVIOUS
<1>1. f + 1 \in Continuation /\ f + 1 \in C!Future /\ IsAttached(f + 1)
  BY DEF Shape, ChainTypeOK, IsAttached
<1>2. CASE j = f + 1
  BY <1>1, <1>2
<1>3. CASE f + 1 < j
  BY <1>1, <1>3 DEF Shape, LinkInv
<1> QED
  BY <1>2, <1>3

\* A future is done with its continuation.
LEMMA DoneKeepsShape ==
  ASSUME Shape, NEW f \in C!Future, pc[f] \in {"continue", "calling", "clean"},
         NEW v \in {"clean", "done"}, pc' = [pc EXCEPT ![f] = v],
         IsAttached(f + 1) => pc[f + 1] = "done",
         stored \ {f} \subseteq stored', stored' \subseteq stored \cup {f},
         f \in stored' => f \in stored \/ f + 1 < attach.next,
         data \ {f} \subseteq data', data' \subseteq data, v = "done" \/ data' = data,
         mark' = mark \/ (v = "done" /\ mark' = [mark EXCEPT ![f] = "Cleaned"]),
         UNCHANGED <<parent, executed, kind, attach, launched, canceled, finished, call>>
  PROVE  Shape' /\ Calm
<1> USE ChainAssumption DEF C!Future, C!None, Continuation
<1>1. /\ ChainTypeOK /\ pc'[f] = v /\ \A k \in 0..Depth : k # f => pc'[k] = pc[k]
      /\ \A k \in 0..Depth : k # f => mark'[k] = mark[k]
      /\ v # "done" => mark' = mark
  BY DEF Shape, ChainTypeOK
<1>2. ChainTypeOK'
  <2>1. pc' \in [C!Future -> Standing]
    BY <1>1 DEF ChainTypeOK, Standing, Early
  <2>2. mark' \in [C!Future -> {"Default", "Canceled", "Cleaned"}]
    BY <1>1 DEF ChainTypeOK
  <2> QED
    BY <1>1, <2>1, <2>2 DEF ChainTypeOK
<1>3. LaunchInv'
  <2>1. \A k \in C!Future : pc'[k] = "none" <=> pc[k] = "none"
    BY <1>1
  <2>2. \A k \in C!Future : pc'[k] \notin Early => k \in finished'
    BY <1>1 DEF Shape, LaunchInv, Early
  <2>3. pc'[0] # "execute"
    BY <1>1 DEF Shape, LaunchInv
  <2>4. \A k \in finished' : pc'[k] # "none"
    BY <1>1 DEF Shape, LaunchInv, ChainTypeOK
  <2> QED
    BY <1>2, <2>1, <2>2, <2>3, <2>4, LaunchStays
<1>4. \A j \in Continuation : f < j /\ IsAttached(j) => pc[j] = "done" /\ pc'[j] = "done"
  BY <1>1, NextIsDone
<1>5. LinkInv'
  <2>0. \A k \in stored' \cup data' : k \in C!Future /\ k + 1 < attach'.next
    BY DEF Shape, LinkInv
  <2>1. \A k \in executed' : k + 1 \in Continuation /\ pc'[k + 1] # "none"
    BY <1>1 DEF Shape, LinkInv
  <2>2. \A k \in C!Future : pc'[k] = "calling" => k \in executed' /\ k + 1 < attach'.next
    BY <1>1 DEF Shape, LinkInv
  <2>3. \A k \in C!Future : mark'[k] = "Cleaned" => pc'[k] = "done"
    <3> SUFFICES ASSUME NEW k \in C!Future, mark'[k] = "Cleaned"
                 PROVE  pc'[k] = "done"
      OBVIOUS
    <3>1. CASE k = f /\ v # "done"
      BY <1>1, <3>1 DEF Shape, LinkInv
    <3>2. CASE k # f
      BY <1>1, <3>2 DEF Shape, LinkInv
    <3> QED
      BY <1>1, <3>1, <3>2
  <2>4. \A k \in C!Future : k + 1 < attach'.next /\ pc'[k] # "done" => k \in data'
    BY <1>1 DEF Shape, LinkInv
  <2>5. \A j \in Continuation : IsAttached(j)' /\ pc'[j] = "none" => j - 1 \in stored' /\ j \in parent'
    <3> SUFFICES ASSUME NEW j \in Continuation, IsAttached(j), pc'[j] = "none"
                 PROVE  j - 1 \in stored' /\ j \in parent'
      BY DEF IsAttached
    <3>1. pc[j] = "none" /\ j # f + 1
      BY <1>1, <1>4
    <3> QED
      BY <3>1 DEF Shape, LinkInv
  <2>6. \A j \in Continuation :
          IsAttached(j)' /\ pc'[j] \notin {"none", "done"} => pc'[j - 1] = "calling"
    <3> SUFFICES ASSUME NEW j \in Continuation, IsAttached(j), pc'[j] \notin {"none", "done"}
                 PROVE  pc'[j - 1] = "calling"
      BY DEF IsAttached
    <3>1. pc[j] \notin {"none", "done"} /\ j - 1 \in C!Future /\ j # f + 1
      BY <1>1, <1>4
    <3>2. pc[j - 1] = "calling"
      BY <3>1 DEF Shape, LinkInv
    <3> QED
      BY <1>1, <3>1, <3>2
  <2>7. \A k \in C!Future, j \in Continuation :
          k < j /\ IsAttached(j)' /\ pc'[k] \in {"clean", "done"} => pc'[j] = "done"
    <3> SUFFICES ASSUME NEW k \in C!Future, NEW j \in Continuation, k < j, IsAttached(j),
                        pc'[k] \in {"clean", "done"}
                 PROVE  pc'[j] = "done"
      BY DEF IsAttached
    <3>1. CASE k = f
      BY <1>4, <3>1
    <3>2. CASE k # f
      <4>1. pc[j] = "done"
        BY <1>1, <3>2 DEF Shape, LinkInv
      <4> QED
        BY <1>1, <4>1 
    <3> QED
      BY <3>1, <3>2
  <2> QED
    BY <2>0, <2>1, <2>2, <2>3, <2>4, <2>5, <2>6, <2>7 DEF LinkInv
<1>6. Calm
  <2>1. \A j \in Continuation :
          IsAttached(j) /\ Runnable(j)' => Runnable(j) /\ (pc'[j] = "none" => pc[j] = "none")
    <3> SUFFICES ASSUME NEW j \in Continuation, IsAttached(j), Runnable(j)'
                 PROVE  Runnable(j) /\ (pc'[j] = "none" => pc[j] = "none")
      OBVIOUS
    <3>1. j # f + 1 /\ j # f
      BY <1>1, <1>4 DEF Runnable
    <3> QED
      BY <1>1, <3>1 DEF Runnable, Covered
  <2> QED
    BY <1>1, <2>1 DEF Calm, ChainTypeOK
<1> QED
  BY <1>2, <1>3, <1>5, <1>6 DEF Shape

\* then() and onCanceled().
LEMMA AttachKeepsShape ==
  ASSUME Shape, NEW type \in {"Then", "OnCanceled"}, C!Attach(type)
  PROVE  Shape' /\ Calm
<1> USE ChainAssumption DEF C!Future, C!None, Continuation
<1>1. PICK f \in C!Future : f = attach.next - 1 /\ f + 1 \in Continuation /\ f + 1 \in C!Future
  BY DEF Shape, ChainTypeOK, C!Attach
<1>2. /\ ChainTypeOK /\ attach.at = "out" /\ attach.next = f + 1 /\ pc[f + 1] = "none"
      /\ UNCHANGED <<canceled, finished, mark, call>>
      /\ kind' = [kind EXCEPT ![f + 1] = type]
  BY <1>1 DEF Shape, ChainTypeOK, LaunchInv, C!Attach, C!flags
<1>3. /\ \A k \in 0..Depth : k # f + 1 => kind'[k] = kind[k]
      /\ kind' \in [C!Future -> {"Unknown", "Then", "OnCanceled"}]
  BY <1>1, <1>2 DEF ChainTypeOK
<1>4. \A j \in Continuation : j >= f + 1 => pc[j] = "none"
  BY <1>1, <1>2 DEF Shape, LaunchInv
<1>5. CASE f \in finished
  <2>1. /\ executed' = executed \cup {f} /\ pc' = [pc EXCEPT ![f + 1] = "execute"]
        /\ launched' = [launched EXCEPT ![f + 1] = @ + 1]
        /\ attach' = [attach EXCEPT !.at = "inline"] /\ UNCHANGED <<stored, data, parent>>
    BY <1>1, <1>5 DEF C!Attach, C!Launch
  <2>2. /\ pc'[f + 1] = "execute" /\ launched'[f + 1] = 1
        /\ \A k \in 0..Depth : k # f + 1 => pc'[k] = pc[k] /\ launched'[k] = launched[k]
        /\ attach'.next = f + 1 /\ attach'.at = "inline"
    <3>1. launched[f + 1] = 0
      BY <1>1, <1>2 DEF Shape, LaunchInv
    <3> QED
      BY <1>1, <1>2, <2>1, <3>1 DEF ChainTypeOK
  <2>3. ChainTypeOK'
    <3>1. pc' \in [C!Future -> Standing]
      BY <1>1, <1>2, <2>1 DEF ChainTypeOK, Standing, Early
    <3>2. launched' \in [C!Future -> {0, 1}]
      BY <1>1, <1>2, <2>1, <2>2 DEF ChainTypeOK
    <3>3. attach' \in [next : 1..Depth + 1, at : {"out", "inline"}]
      BY <1>2, <2>1 DEF ChainTypeOK
    <3> QED
      BY <1>2, <1>3, <3>1, <3>2, <3>3 DEF ChainTypeOK
  <2>4. LaunchInv'
    <3>1. \A i \in Continuation : i <= f => pc[i] # "none"
      BY <1>1, <1>5 DEF Shape, LaunchInv
    <3>2. \A i, j \in Continuation : i <= j /\ pc'[i] = "none" => pc'[j] = "none"
      BY <1>1, <1>4, <2>2, <3>1
    <3>3. \A j \in Continuation : pc'[j] # "none" => j - 1 \in finished' \cap executed'
      BY <1>1, <1>2, <1>5, <2>1, <2>2 DEF Shape, LaunchInv
    <3>4. \A j \in Continuation : launched'[j] = IF pc'[j] = "none" THEN 0 ELSE 1
      BY <1>1, <2>2 DEF Shape, LaunchInv
    <3>5. \A k \in C!Future : pc'[k] \notin Early => k \in finished'
      BY <1>1, <1>2, <2>2 DEF Shape, LaunchInv, Early
    <3>6. pc'[0] \notin {"none", "execute"}
      BY <1>1, <2>2 DEF Shape, LaunchInv
    <3>7. \A j \in Continuation : j > attach'.next => pc'[j] = "none"
      BY <1>1, <1>4, <2>2
    <3>8. \A k \in finished' : pc'[k] # "none"
      BY <1>2, <2>2 DEF Shape, LaunchInv, ChainTypeOK
    <3> QED
      BY <1>1, <2>2, <3>2, <3>3, <3>4, <3>5, <3>6, <3>7, <3>8 DEF LaunchInv
  <2>5. LinkInv'
    <3>0. \A k \in C!Future : k # f + 1 => pc'[k] = pc[k]
      BY <2>2
    <3>1. \A k \in executed' : k + 1 \in Continuation /\ pc'[k + 1] # "none"
      BY <1>1, <2>1, <2>2 DEF Shape, LinkInv
    <3>2. \A k \in C!Future : pc'[k] = "calling" => k \in executed' /\ k + 1 < attach'.next
      BY <1>2, <2>1, <2>2 DEF Shape, LinkInv
    <3>3. \A k \in C!Future : mark'[k] = "Cleaned" => pc'[k] = "done"
      BY <1>2, <2>2 DEF Shape, LinkInv
    <3>4. \A k \in C!Future : k + 1 < attach'.next /\ pc'[k] # "done" => k \in data'
      BY <1>2, <2>1, <2>2 DEF Shape, LinkInv
    <3>5. \A j \in Continuation : IsAttached(j)' => IsAttached(j) /\ j # f + 1
      BY <1>1, <1>2, <2>2 DEF IsAttached
    <3>6. \A j \in Continuation :
            IsAttached(j)' /\ pc'[j] = "none" => j - 1 \in stored' /\ j \in parent'
      BY <2>1, <3>0, <3>5 DEF Shape, LinkInv
    <3>7. \A j \in Continuation :
            IsAttached(j)' /\ pc'[j] \notin {"none", "done"} => pc'[j - 1] = "calling"
      <4> SUFFICES ASSUME NEW j \in Continuation, IsAttached(j), j # f + 1,
                          pc'[j] \notin {"none", "done"}
                   PROVE  pc'[j - 1] = "calling"
        BY <3>5
      <4>1. pc[j - 1] = "calling" /\ j - 1 \in C!Future
        BY <3>0 DEF Shape, LinkInv
      <4> QED
        BY <1>2, <3>0, <4>1
    <3>8. \A k \in C!Future, j \in Continuation :
            k < j /\ IsAttached(j)' /\ pc'[k] \in {"clean", "done"} => pc'[j] = "done"
      BY <2>2, <3>0, <3>5 DEF Shape, LinkInv
    <3> QED
      BY <1>2, <2>1, <2>2, <3>1, <3>2, <3>3, <3>4, <3>6, <3>7, <3>8 DEF Shape, LinkInv
  <2>6. Calm
    <3>1. \A j \in Continuation : IsAttached(j) => j # f + 1 /\ pc'[j] = pc[j] /\ kind'[j] = kind[j]
      BY <1>1, <1>2, <1>3, <2>2 DEF IsAttached
    <3>2. \A j \in Continuation : pc[j] # "none" => kind'[j] = kind[j]
      BY <1>2, <1>3
    <3>3. \A j \in Continuation : pc'[j] \in {"none", "execute"} => pc[j] \in {"none", "execute"}
      BY <1>2, <2>2
    <3> QED
      BY <1>1, <1>2, <2>2, <3>1, <3>2, <3>3 DEF Calm, Runnable, Covered
  <2> QED
    BY <2>3, <2>4, <2>5, <2>6 DEF Shape
<1>6. CASE f \notin finished
  <2>1. /\ pc[f] \in Early /\ mark[f] # "Cleaned"
        /\ \A k \in C!Future : k <= f => pc[k] \notin {"clean", "done"}
    <3>1. pc[f] \in Early /\ mark[f] # "Cleaned"
      BY <1>6 DEF Shape, LaunchInv, LinkInv, Early
    <3>2. ASSUME NEW k \in C!Future, k < f, pc[k] \in {"clean", "done"}
          PROVE  FALSE
      <4>1. f \in Continuation /\ IsAttached(f)
        BY <1>1, <1>2, <3>2 DEF IsAttached
      <4> QED
        BY <3>1, <3>2, <4>1 DEF Shape, LinkInv, Early
    <3> QED
      BY <3>1, <3>2 DEF Early
  <2>2. /\ stored' = stored \cup {f} /\ data' = data \cup {f} /\ parent' = parent \cup {f + 1}
        /\ attach' = [next |-> attach.next + 1, at |-> "out"]
        /\ UNCHANGED <<pc, launched, executed>>
    BY <1>1, <1>6, <2>1 DEF C!Attach, C!Link, C!Attached
  <2>3. attach.next = f + 1 /\ attach'.next = f + 2 /\ attach'.at = "out"
    BY <1>1, <1>2, <2>2
  <2>4. ChainTypeOK'
    <3>1. attach' \in [next : 1..Depth + 1, at : {"out", "inline"}]
      BY <1>1, <1>2, <2>2
    <3> QED
      BY <1>2, <1>3, <2>2, <3>1 DEF ChainTypeOK
  <2>5. LaunchInv'
    <3>1. attach'.next \in Continuation => (pc'[attach'.next] = "none" <=> attach'.at = "out")
      BY <1>1, <1>4, <2>2, <2>3
    <3>2. \A j \in Continuation : j > attach'.next => pc'[j] = "none"
      BY <1>1, <1>4, <2>2, <2>3
    <3> QED
      BY <1>2, <2>2, <2>3, <3>1, <3>2 DEF Shape, LaunchInv
  <2>6. LinkInv'
    <3>0. \A j \in Continuation : IsAttached(j)' <=> IsAttached(j) \/ j = f + 1
      BY <2>3 DEF IsAttached
    <3>1. \A k \in stored' \cup data' : k \in C!Future /\ k + 1 < attach'.next
      BY <2>2, <2>3 DEF Shape, LinkInv
    <3>2. \A k \in C!Future : pc'[k] = "calling" => k \in executed' /\ k + 1 < attach'.next
      BY <2>2, <2>3 DEF Shape, LinkInv
    <3>3. \A k \in C!Future : k + 1 < attach'.next /\ pc'[k] # "done" => k \in data'
      BY <2>2, <2>3 DEF Shape, LinkInv
    <3>4. \A j \in Continuation :
            IsAttached(j)' /\ pc'[j] = "none" => j - 1 \in stored' /\ j \in parent'
      BY <1>1, <2>2, <3>0 DEF Shape, LinkInv
    <3>5. \A j \in Continuation :
            IsAttached(j)' /\ pc'[j] \notin {"none", "done"} => pc'[j - 1] = "calling"
      BY <1>2, <2>2, <3>0 DEF Shape, LinkInv
    <3>6. \A k \in C!Future, j \in Continuation :
            k < j /\ IsAttached(j)' /\ pc'[k] \in {"clean", "done"} => pc'[j] = "done"
      <4> SUFFICES ASSUME NEW k \in C!Future, NEW j \in Continuation, k < j, IsAttached(j)',
                          pc[k] \in {"clean", "done"}
                   PROVE  pc[j] = "done"
        BY <2>2
      <4>1. j # f + 1
        BY <1>1, <2>1
      <4> QED
        BY <3>0, <4>1 DEF Shape, LinkInv
    <3> QED
      BY <1>2, <2>2, <3>1, <3>2, <3>3, <3>4, <3>5, <3>6 DEF Shape, LinkInv
  <2>7. Calm
    <3>1. \A j \in Continuation : IsAttached(j) => j # f + 1 /\ kind'[j] = kind[j]
      BY <1>1, <1>2, <1>3 DEF IsAttached
    <3>2. \A j \in Continuation : pc[j] # "none" => kind'[j] = kind[j]
      BY <1>2, <1>3
    <3> QED
      BY <1>1, <1>2, <2>2, <2>3, <3>1, <3>2 DEF Calm, Runnable, Covered
  <2> QED
    BY <2>4, <2>5, <2>6, <2>7 DEF Shape
<1> QED
  BY <1>5, <1>6

\* A continuation that the attaching thread ran has returned.
LEMMA ReturnKeepsShape ==
  ASSUME Shape, C!AttachReturns
  PROVE  Shape' /\ Calm
<1> USE ChainAssumption DEF C!Future, C!None, Continuation
<1>1. PICK f \in C!Future : f = attach.next - 1 /\ f + 1 \in Continuation /\ f + 1 \in C!Future
  BY DEF Shape, ChainTypeOK, LaunchInv, C!AttachReturns
<1>2. /\ ChainTypeOK /\ attach.at = "inline" /\ attach.next = f + 1 /\ pc[f + 1] = "done"
      /\ UNCHANGED <<executed, canceled, finished, mark, kind, pc, call, launched>>
      /\ attach' = [next |-> attach.next + 1, at |-> "out"]
  BY <1>1 DEF Shape, ChainTypeOK, C!AttachReturns, C!flags, C!Attached
<1>3. /\ \/ mark[f] = "Cleaned" /\ UNCHANGED <<stored, data, parent>>
         \/ stored' = stored \cup {f} /\ data' = data \cup {f} /\ parent' = parent \cup {f + 1}
      /\ attach'.next = f + 2 /\ attach'.at = "out"
      /\ mark[f] = "Cleaned" => pc[f] = "done"
  BY <1>1, <1>2 DEF C!AttachReturns, C!Link, Shape, LinkInv
<1>4. ChainTypeOK'
  <2>1. attach' \in [next : 1..Depth + 1, at : {"out", "inline"}]
    BY <1>1, <1>2
  <2> QED
    BY <1>2, <2>1 DEF ChainTypeOK
<1>5. LaunchInv'
  <2>1. attach'.next \in Continuation => (pc'[attach'.next] = "none" <=> attach'.at = "out")
    BY <1>1, <1>2, <1>3 DEF Shape, LaunchInv
  <2>2. \A j \in Continuation : j > attach'.next => pc'[j] = "none"
    BY <1>1, <1>2, <1>3 DEF Shape, LaunchInv
  <2> QED
    BY <1>2, <1>3, <2>1, <2>2 DEF Shape, LaunchInv
<1>6. LinkInv'
  <2>0. \A j \in Continuation : IsAttached(j)' <=> IsAttached(j) \/ j = f + 1
    BY <1>1, <1>2, <1>3 DEF IsAttached
  <2>1. \A k \in stored' \cup data' : k \in C!Future /\ k + 1 < attach'.next
    BY <1>1, <1>2, <1>3 DEF Shape, LinkInv
  <2>2. \A k \in C!Future : pc'[k] = "calling" => k \in executed' /\ k + 1 < attach'.next
    BY <1>1, <1>2, <1>3 DEF Shape, LinkInv
  <2>3. \A k \in C!Future : k + 1 < attach'.next /\ pc'[k] # "done" => k \in data'
    BY <1>1, <1>2, <1>3 DEF Shape, LinkInv
  <2>4. \A j \in Continuation : IsAttached(j)' /\ pc'[j] = "none" => j - 1 \in stored' /\ j \in parent'
    BY <1>1, <1>2, <1>3, <2>0 DEF Shape, LinkInv
  <2>5. \A j \in Continuation :
          IsAttached(j)' /\ pc'[j] \notin {"none", "done"} => pc'[j - 1] = "calling"
    BY <1>2, <2>0 DEF Shape, LinkInv
  <2>6. \A k \in C!Future, j \in Continuation :
          k < j /\ IsAttached(j)' /\ pc'[k] \in {"clean", "done"} => pc'[j] = "done"
    BY <1>2, <2>0 DEF Shape, LinkInv
  <2> QED
    BY <1>2, <2>1, <2>2, <2>3, <2>4, <2>5, <2>6 DEF Shape, LinkInv
<1>7. Calm
  BY <1>1, <1>2, <1>3 DEF Calm, Runnable, Covered
<1> QED
  BY <1>4, <1>5, <1>6, <1>7 DEF Shape

\* A step of a call that cancels, on the links and the flags.
LEMMA QuietKeepsShape ==
  ASSUME Shape, UNCHANGED <<stored, data, parent, executed, kind, pc, attach, launched, finished>>,
         canceled \subseteq canceled', canceled' \subseteq C!Future,
         mark' \in [C!Future -> {"Default", "Canceled", "Cleaned"}],
         \A f \in C!Future : mark'[f] = mark[f] \/ mark'[f] = "Canceled",
         call' \in [C!Actor -> CallRecord]
  PROVE  Shape' /\ Calm
<1> USE ChainAssumption DEF C!Future, C!None, Continuation
<1>1. ChainTypeOK'
  BY DEF Shape, ChainTypeOK
<1>2. LaunchInv'
  BY DEF Shape, LaunchInv
<1>3. LinkInv'
  <2>1. \A f \in C!Future : mark'[f] = "Cleaned" => pc'[f] = "done"
    BY DEF Shape, LinkInv
  <2>2. \A j \in Continuation : IsAttached(j)' <=> IsAttached(j)
    BY DEF IsAttached
  <2> QED
    BY <2>1, <2>2 DEF Shape, LinkInv
<1>4. Calm
  <2>1. \A j \in Continuation : Covered(j) => Covered(j)'
    BY DEF Covered
  <2> QED
    BY <2>1 DEF Calm, Runnable, Shape, ChainTypeOK
<1> QED
  BY <1>1, <1>2, <1>3, <1>4 DEF Shape

\* How a call moves on.
LEMMA GoesTo ==
  ASSUME ChainTypeOK, NEW a \in C!Actor,
         NEW place \in {"out", "flag", "walk", "mark", "chain", "up", "upper"},
         NEW cur \in C!Future \cup {C!None}, C!Goes(a, place, cur)
  PROVE  /\ call' \in [C!Actor -> CallRecord]
         /\ call'[a].at = place /\ call'[a].cur = cur
         /\ call'[a].of = call[a].of /\ call'[a].span = call[a].span
         /\ \A b \in C!Actor : b # a => call'[b] = call[b]
<1>1. call' = [call EXCEPT ![a].at = place, ![a].cur = cur]
  BY DEF C!Goes
<1>2. call' \in [C!Actor -> CallRecord]
  <2>1. PICK A, W, O, K, P : CallRecord = [at : A, way : W, of : O, cur : K, span : P]
                             /\ place \in A /\ cur \in K
    BY DEF CallRecord
  <2>2. call \in [C!Actor -> [at : A, way : W, of : O, cur : K, span : P]]
    BY <2>1 DEF ChainTypeOK
  <2>3. [call EXCEPT ![a].at = place, ![a].cur = cur]
          \in [C!Actor -> [at : A, way : W, of : O, cur : K, span : P]]
    <3>1. place \in A /\ cur \in K
      BY <2>1
    <3> QED
      BY <2>2, <3>1
  <2> QED
    BY <1>1, <2>1, <2>3
<1>3. /\ call'[a].at = place /\ call'[a].cur = cur
      /\ call'[a].of = call[a].of /\ call'[a].span = call[a].span
  BY <1>1 DEF ChainTypeOK, CallRecord
<1> QED
  BY <1>1, <1>2, <1>3 DEF ChainTypeOK

LEMMA CallsAre ==
  ASSUME ChainTypeOK, NEW a \in C!Actor
  PROVE  /\ call[a].at \in {"out", "flag", "walk", "mark", "chain", "up", "upper"}
         /\ call[a].of \in C!Future \cup {C!None} /\ call[a].cur \in C!Future \cup {C!None}
         /\ call[a].span \subseteq Continuation
BY DEF ChainTypeOK, CallRecord

LEMMA LinksAre ==
  ASSUME NEW f \in C!Future \cup {C!None}
  PROVE  /\ f \in Int
         /\ C!Child(f) = f + 1 \/ (f \notin data /\ C!Child(f) = C!None)
         /\ C!Parent(f) = f - 1 \/ (f \notin parent /\ C!Parent(f) = C!None)
BY ChainAssumption DEF C!Child, C!Parent, C!Future, C!None

\* The calls of those who do not take the step.
LEMMA OthersAreSound ==
  ASSUME Shape, Calm, NEW b \in C!Actor, CallSound(b), call'[b] = call[b]
  PROVE  CallSound(b)'
<1> USE ChainAssumption DEF C!Future, C!None, Continuation
<1>1. Ahead(b, 0) \in BOOLEAN /\ \A j \in Continuation : Ahead(b, j)' <=> Ahead(b, j)
  BY DEF Ahead
<1>2. \A j \in Continuation : IsAttached(j) => IsAttached(j)' /\ kind'[j] = kind[j]
  BY DEF Calm, IsAttached, Shape, ChainTypeOK
<1>3. call[b].span \subseteq Continuation
  BY CallsAre DEF Shape
<1>4. ASSUME call[b].at # "out", NEW j \in call[b].span
      PROVE  /\ IsAttached(j)' /\ call[b].of < attach'.next
             /\ kind'[j] = "Then" /\ \A i \in call[b].of + 1..j : kind'[i] = "Then"
             /\ pc'[j] = "none" /\ Runnable(j)' => Ahead(b, j)'
  <2>1. /\ IsAttached(j) /\ call[b].of < attach.next /\ kind[j] = "Then" /\ j \in Continuation
        /\ \A i \in call[b].of + 1..j : kind[i] = "Then"
        /\ pc[j] = "none" /\ Runnable(j) => Ahead(b, j)
        /\ call[b].of \in C!Future
    BY <1>3, <1>4 DEF CallSound
  <2>2. IsAttached(j)' /\ kind'[j] = "Then" /\ call[b].of < attach'.next
    BY <1>2, <2>1 DEF Calm, Shape, ChainTypeOK
  <2>3. ASSUME NEW i \in call[b].of + 1..j
        PROVE  kind'[i] = "Then"
    <3>1. i \in Continuation /\ IsAttached(i)
      BY <2>1 DEF IsAttached, Shape, ChainTypeOK
    <3> QED
      BY <1>2, <2>1, <3>1
  <2>4. pc'[j] = "none" /\ Runnable(j)' => Ahead(b, j)'
    BY <1>1, <2>1 DEF Calm
  <2> QED
    BY <2>2, <2>3, <2>4
<1>5. \A f : f \in canceled => f \in canceled'
  BY DEF Calm
<1> QED
  BY <1>4, <1>5 DEF CallSound

\* A step that neither calls a function nor ends a call.
LEMMA StopsAreKept ==
  ASSUME Shape, Calm, StopInv, stopped' = stopped, ran' = ran
  PROVE  StopInv'
<1> USE ChainAssumption DEF C!Future, C!None, Continuation
<1>1. \A j \in Continuation : IsAttached(j) => IsAttached(j)' /\ kind'[j] = kind[j]
  BY DEF Calm, IsAttached, Shape, ChainTypeOK
<1>2. \A j \in stopped : IsAttached(j)' /\ kind'[j] = "Then" /\ j \notin ran /\ ~Runnable(j)'
  BY <1>1 DEF StopInv, Calm, IsAttached
<1>3. \A j \in ran : j \in Continuation /\ pc'[j] \notin {"none", "execute"}
  BY DEF StopInv, Calm
<1>4. \A j \in ran : kind'[j] = "OnCanceled" => j - 1 \in canceled'
  BY DEF StopInv, Calm
<1> QED
  BY <1>2, <1>3, <1>4 DEF StopInv

-----------------------------------------------------------------------------
\* The invariant after the step of one actor, when all but that actor's call is seen to.
LEMMA OneMoves ==
  ASSUME ChainInv, Shape', Calm, StopInv', NEW a \in C!Actor,
         \A b \in C!Actor : b # a => call'[b] = call[b], CallSound(a)'
  PROVE  ChainInv'
<1>1. \A b \in C!Actor : CallSound(b)'
  <2> SUFFICES ASSUME NEW b \in C!Actor
               PROVE  CallSound(b)'
    OBVIOUS
  <2>1. CASE b = a
    BY <2>1
  <2>2. CASE b # a
    BY <2>2, OthersAreSound DEF ChainInv, Shape
  <2> QED
    BY <2>1, <2>2
<1> QED
  BY <1>1 DEF ChainInv, Shape

LEMMA NobodyMoves ==
  ASSUME ChainInv, Shape', Calm, StopInv', UNCHANGED call
  PROVE  ChainInv'
<1>1. \A b \in C!Actor : CallSound(b)'
  BY OthersAreSound DEF ChainInv, Shape
<1> QED
  BY <1>1 DEF ChainInv, Shape

\* A call that has moved on is sound if it still has ahead what it has not reached.
LEMMA ActorIsSound ==
  ASSUME ChainInv, NEW a \in C!Actor, call[a].at # "out", UNCHANGED <<kind, pc, attach>>,
         call'[a].of = call[a].of, call'[a].span = call[a].span,
         call'[a].at \in {"walk", "mark"} => call[a].of \in canceled',
         call'[a].at \in {"up", "upper"} => call'[a].cur <= call[a].of,
         call'[a].at = "upper" => call'[a].cur \in canceled',
         \A j \in call[a].span : pc[j] = "none" /\ Runnable(j)' => Ahead(a, j)'
  PROVE  CallSound(a)'
BY DEF CallSound, ChainInv, IsAttached

\* What a call on f knows of the continuation j that it has not reached.
LEMMA Waits ==
  ASSUME ChainInv, NEW a \in C!Actor, call[a].at # "out", NEW j \in call[a].span, pc[j] = "none"
  PROVE  /\ j \in Continuation /\ IsAttached(j) /\ call[a].of \in C!Future /\ call[a].of < attach.next
         /\ kind[j] = "Then" /\ \A i \in call[a].of + 1..j : kind[i] = "Then"
         /\ Runnable(j) => Ahead(a, j)
         /\ \A c \in C!Future : c + 1 < j => c \in data
         /\ \A c \in C!Future : j <= c /\ c < attach.next => c \in parent
<1> USE ChainAssumption DEF C!Future, C!None, Continuation
<1>1. call[a].span \subseteq Continuation /\ Shape
  BY CallsAre DEF ChainInv, Shape
<1>2. /\ j \in Continuation /\ IsAttached(j) /\ call[a].of \in C!Future /\ call[a].of < attach.next
      /\ kind[j] = "Then" /\ \A i \in call[a].of + 1..j : kind[i] = "Then"
      /\ Runnable(j) => Ahead(a, j)
  BY <1>1 DEF ChainInv, CallSound
<1>3. ASSUME NEW c \in C!Future, c + 1 < j
      PROVE  c \in data
  <2>1. pc[c] # "done"
    BY <1>1, <1>2, <1>3 DEF Shape, LinkInv
  <2>2. c + 1 < attach.next
    BY <1>1, <1>2, <1>3 DEF IsAttached, Shape, ChainTypeOK
  <2> QED
    BY <1>1, <2>1, <2>2 DEF Shape, LinkInv
<1>4. ASSUME NEW c \in C!Future, j <= c, c < attach.next
      PROVE  c \in parent
  <2>1. c \in Continuation /\ IsAttached(c) /\ pc[c] = "none"
    BY <1>1, <1>2, <1>4 DEF IsAttached, Shape, LaunchInv
  <2> QED
    BY <1>1, <2>1 DEF Shape, LinkInv
<1> QED
  BY <1>2, <1>3, <1>4

\* What a call stops when it returns will be skipped.
LEMMA StopsAreSkipped ==
  ASSUME ChainInv, Shape', Calm, NEW a \in C!Actor, call[a].at # "out", NEW seen, UNCHANGED <<pc, ran>>,
         stopped' = stopped \cup {j \in call[a].span \cap seen : pc[j] = "none"},
         \A j \in call[a].span \cap seen : pc[j] = "none" => ~Runnable(j)
  PROVE  StopInv'
<1> USE ChainAssumption DEF C!Future, C!None, Continuation
<1>1. \A j \in Continuation : IsAttached(j) => IsAttached(j)' /\ kind'[j] = kind[j]
  BY DEF Calm, IsAttached, ChainInv, ChainTypeOK
<1>2. ASSUME NEW j \in stopped'
      PROVE  IsAttached(j)' /\ kind'[j] = "Then" /\ j \notin ran /\ ~Runnable(j)'
  <2>1. IsAttached(j) /\ kind[j] = "Then" /\ j \notin ran /\ ~Runnable(j)
    <3>1. CASE j \in stopped
      BY <3>1 DEF ChainInv, StopInv
    <3>2. CASE j \in call[a].span \cap seen /\ pc[j] = "none"
      <4>1. IsAttached(j) /\ kind[j] = "Then"
        BY <3>2, Waits
      <4> QED
        BY <3>2, <4>1 DEF ChainInv, StopInv
    <3> QED
      BY <1>2, <3>1, <3>2
  <2> QED
    BY <1>1, <2>1 DEF Calm, IsAttached
<1>3. \A j \in ran : j \in Continuation /\ pc'[j] \notin {"none", "execute"}
  BY DEF ChainInv, StopInv
<1>4. \A j \in ran : kind'[j] = "OnCanceled" => j - 1 \in canceled'
  BY DEF ChainInv, StopInv, Calm
<1> QED
  BY <1>2, <1>3, <1>4 DEF StopInv

LEMMA FlagKeeps ==
  ASSUME ChainInv, NEW a \in C!Actor, C!Flag(a)
  PROVE  ChainInv'
<1> USE ChainAssumption DEF C!Future, C!None, Continuation
<1>1. PICK f : f = call[a].of
  OBVIOUS
<1>2. /\ Shape /\ call[a].at = "flag" /\ f \in C!Future /\ canceled' = canceled \cup {f}
      /\ UNCHANGED <<finished, stored, data, parent, executed, mark, kind, pc, attach, launched, ran>>
  BY <1>1 DEF ChainInv, Shape, CallSound, C!Flag, C!At, C!links
<1>3. ASSUME NEW j \in call[a].span, pc[j] = "none", Runnable(j)
      PROVE  f < j
  BY <1>1, <1>2, <1>3, Waits DEF Ahead
<1>4. CASE f \notin canceled
  <2>1. C!Goes(a, "walk", C!None) /\ stopped' = stopped
    BY <1>1, <1>4 DEF C!Flag
  <2>2. /\ call' \in [C!Actor -> CallRecord] /\ call'[a].at = "walk"
        /\ call'[a].of = f /\ call'[a].span = call[a].span
        /\ \A b \in C!Actor : b # a => call'[b] = call[b]
    BY <1>1, <1>2, <2>1, GoesTo DEF Shape
  <2>3. Shape' /\ Calm
    BY <1>2, <2>2, QuietKeepsShape DEF Shape, ChainTypeOK
  <2>4. StopInv'
    BY <1>2, <2>1, <2>3, StopsAreKept DEF ChainInv
  <2>5. ASSUME NEW j \in call[a].span, pc[j] = "none", Runnable(j)'
        PROVE  Ahead(a, j)'
    <3>1. j \in Continuation /\ IsAttached(j)
      BY <1>2, <2>5, Waits
    <3>2. Runnable(j) /\ j - 1 # f
      BY <1>2, <2>3, <2>5, <3>1 DEF Calm, Runnable, Covered
    <3>3. f < j
      BY <1>3, <2>5, <3>2
    <3> QED
      BY <1>2, <2>2, <3>1, <3>2, <3>3 DEF Ahead
  <2>6. CallSound(a)'
    BY <1>1, <1>2, <2>2, <2>5, ActorIsSound
  <2> QED
    BY <2>2, <2>3, <2>4, <2>6, OneMoves
<1>5. CASE f \in canceled
  <2>1. /\ C!Goes(a, "out", C!None)
        /\ stopped' = stopped \cup {j \in call[a].span \cap (0..f + 1) : pc[j] = "none"}
    BY <1>1, <1>5 DEF C!Flag, C!Returns
  <2>2. /\ call' \in [C!Actor -> CallRecord] /\ call'[a].at = "out"
        /\ \A b \in C!Actor : b # a => call'[b] = call[b]
    BY <1>2, <2>1, GoesTo DEF Shape
  <2>3. Shape' /\ Calm
    BY <1>2, <2>2, QuietKeepsShape DEF Shape, ChainTypeOK
  <2>4. \A j \in call[a].span \cap (0..f + 1) : pc[j] = "none" => ~Runnable(j)
    <3> SUFFICES ASSUME NEW j \in call[a].span, j \in 0..f + 1, pc[j] = "none", Runnable(j)
                 PROVE  FALSE
      OBVIOUS
    <3>1. j = f + 1
      BY <1>2, <1>3
    <3> QED
      BY <1>2, <1>5, <3>1 DEF Runnable, Covered
  <2>5. StopInv'
    BY <1>2, <2>1, <2>3, <2>4, StopsAreSkipped
  <2>6. CallSound(a)'
    BY <2>2 DEF CallSound
  <2> QED
    BY <2>2, <2>3, <2>5, <2>6, OneMoves
<1> QED
  BY <1>4, <1>5

LEMMA WalkKeeps ==
  ASSUME ChainInv, NEW a \in C!Actor, C!Walk(a)
  PROVE  ChainInv'
<1> USE ChainAssumption DEF C!Future, C!None, Continuation
<1>1. PICK f : f = call[a].of
  OBVIOUS
<1>2. /\ Shape /\ call[a].at = "walk" /\ f \in C!Future /\ f \in canceled
      /\ C!Goes(a, "mark", C!Child(f))
      /\ UNCHANGED <<canceled, finished, stored, data, parent, executed, mark, kind, pc, attach,
                     launched, ran, stopped>>
  BY <1>1 DEF ChainInv, Shape, CallSound, C!Walk, C!At, C!links, C!flags
<1>3. C!Child(f) \in C!Future \cup {C!None} /\ (f \in data => C!Child(f) = f + 1)
  BY <1>2 DEF C!Child, Shape, LinkInv, ChainTypeOK
<1>4. /\ call' \in [C!Actor -> CallRecord] /\ call'[a].at = "mark" /\ call'[a].cur = C!Child(f)
      /\ call'[a].of = f /\ call'[a].span = call[a].span
      /\ \A b \in C!Actor : b # a => call'[b] = call[b]
  BY <1>1, <1>2, <1>3, GoesTo DEF Shape
<1>5. Shape' /\ Calm
  BY <1>2, <1>4, QuietKeepsShape DEF Shape, ChainTypeOK
<1>6. StopInv'
  BY <1>2, <1>5, StopsAreKept DEF ChainInv
<1>7. ASSUME NEW j \in call[a].span, pc[j] = "none", Runnable(j)'
      PROVE  Ahead(a, j)'
  <2>1. Runnable(j) /\ j \in Continuation
    BY <1>2, <1>5, <1>7, Waits DEF Calm
  <2>2. f + 1 < j
    BY <1>1, <1>2, <1>7, <2>1, Waits DEF Ahead
  <2>3. f \in data
    BY <1>2, <1>7, <2>2, Waits
  <2> QED
    BY <1>2, <1>3, <1>4, <2>1, <2>2, <2>3 DEF Ahead
<1>8. CallSound(a)'
  BY <1>1, <1>2, <1>4, <1>7, ActorIsSound
<1> QED
  BY <1>4, <1>5, <1>6, <1>8, OneMoves

LEMMA MarkKeeps ==
  ASSUME ChainInv, NEW a \in C!Actor, C!Mark(a)
  PROVE  ChainInv'
<1> USE ChainAssumption DEF C!Future, C!None, Continuation
<1>1. PICK f, c : f = call[a].of /\ c = call[a].cur
  OBVIOUS
<1>2. PICK next : next = IF kind[c] = "Then" THEN C!Child(c) ELSE C!None
  OBVIOUS
<1>3. /\ Shape /\ call[a].at = "mark" /\ f \in C!Future /\ f \in canceled
      /\ c \in C!Future
      /\ mark' = IF kind[c] = "Then" THEN [mark EXCEPT ![c] = "Canceled"] ELSE mark
      /\ C!Goes(a, "mark", next)
      /\ UNCHANGED <<canceled, finished, stored, data, parent, executed, kind, pc, attach,
                     launched, ran, stopped>>
  <2>1. /\ Shape /\ call[a].at = "mark" /\ f \in C!Future /\ f \in canceled
        /\ c \in C!Future
    BY <1>1, CallsAre DEF ChainInv, Shape, CallSound, C!Mark, C!At
  <2> QED
    BY <1>1, <1>2, <2>1 DEF C!Mark, C!flags
<1>4. next \in C!Future \cup {C!None} /\ (kind[c] = "Then" /\ c \in data => next = c + 1)
  BY <1>2, <1>3 DEF C!Child, Shape, LinkInv, ChainTypeOK
<1>5. /\ call' \in [C!Actor -> CallRecord] /\ call'[a].at = "mark" /\ call'[a].cur = next
      /\ call'[a].of = f /\ call'[a].span = call[a].span
      /\ \A b \in C!Actor : b # a => call'[b] = call[b]
  BY <1>1, <1>3, <1>4, GoesTo DEF Shape
<1>6. /\ mark' \in [C!Future -> {"Default", "Canceled", "Cleaned"}]
      /\ \A k \in C!Future : mark'[k] = mark[k] \/ mark'[k] = "Canceled"
      /\ kind[c] = "Then" => mark'[c] = "Canceled"
  BY <1>3 DEF Shape, ChainTypeOK
<1>7. Shape' /\ Calm
  BY <1>3, <1>5, <1>6, QuietKeepsShape DEF Shape, ChainTypeOK
<1>8. StopInv'
  BY <1>3, <1>7, StopsAreKept DEF ChainInv
<1>9. ASSUME NEW j \in call[a].span, pc[j] = "none", Runnable(j)'
      PROVE  Ahead(a, j)'
  <2>1. Runnable(j) /\ j \in Continuation
    BY <1>3, <1>7, <1>9, Waits DEF Calm
  <2>2. f < c /\ c < j
    BY <1>1, <1>3, <1>9, <2>1, Waits DEF Ahead
  <2>3. kind[c] = "Then"
    BY <1>1, <1>3, <1>9, <2>1, <2>2, Waits
  <2>4. j # c + 1
    BY <1>3, <1>6, <1>9, <2>3 DEF Runnable, Covered
  <2>5. c \in data
    BY <1>3, <1>9, <2>1, <2>2, <2>4, Waits
  <2> QED
    BY <1>3, <1>4, <1>5, <2>1, <2>2, <2>3, <2>4, <2>5 DEF Ahead
<1>10. CallSound(a)'
  BY <1>1, <1>3, <1>5, <1>9, ActorIsSound
<1> QED
  BY <1>5, <1>7, <1>8, <1>10, OneMoves

LEMMA CancelledKeeps ==
  ASSUME ChainInv, NEW a \in C!Actor, C!Cancelled(a)
  PROVE  ChainInv'
<1>1. /\ Shape /\ call[a].at = "mark" /\ call[a].cur = C!None /\ C!Goes(a, "out", C!None)
      /\ stopped' = stopped \cup {j \in call[a].span \cap C!Future : pc[j] = "none"}
      /\ UNCHANGED <<canceled, finished, stored, data, parent, executed, mark, kind, pc, attach,
                     launched, ran>>
  BY DEF ChainInv, Shape, C!Cancelled, C!At, C!links, C!flags, C!Returns
<1>2. /\ call' \in [C!Actor -> CallRecord] /\ call'[a].at = "out"
      /\ \A b \in C!Actor : b # a => call'[b] = call[b]
  BY <1>1, GoesTo DEF Shape
<1>3. Shape' /\ Calm
  BY <1>1, <1>2, QuietKeepsShape DEF Shape, ChainTypeOK
<1>4. \A j \in call[a].span \cap C!Future : pc[j] = "none" => ~Runnable(j)
  BY <1>1, Waits DEF Ahead
<1>5. StopInv'
  BY <1>1, <1>3, <1>4, StopsAreSkipped
<1>6. CallSound(a)'
  BY <1>2 DEF CallSound
<1> QED
  BY <1>2, <1>3, <1>5, <1>6, OneMoves

LEMMA ChainKeeps ==
  ASSUME ChainInv, NEW a \in C!Actor, C!Chain(a)
  PROVE  ChainInv'
<1> USE ChainAssumption DEF C!Future, C!None, Continuation
<1>1. PICK f : f = call[a].of
  OBVIOUS
<1>2. /\ Shape /\ call[a].at = "chain" /\ f \in C!Future
      /\ C!Goes(a, "up", C!Parent(f))
      /\ UNCHANGED <<canceled, finished, stored, data, parent, executed, mark, kind, pc, attach,
                     launched, ran, stopped>>
  BY <1>1 DEF ChainInv, Shape, CallSound, C!Chain, C!At, C!links, C!flags
<1>3. C!Parent(f) \in C!Future \cup {C!None} /\ C!Parent(f) <= f /\ (f \in parent => C!Parent(f) = f - 1)
  BY <1>2 DEF C!Parent
<1>4. /\ call' \in [C!Actor -> CallRecord] /\ call'[a].at = "up" /\ call'[a].cur = C!Parent(f)
      /\ call'[a].of = f /\ call'[a].span = call[a].span
      /\ \A b \in C!Actor : b # a => call'[b] = call[b]
  BY <1>1, <1>2, <1>3, GoesTo DEF Shape
<1>5. Shape' /\ Calm
  BY <1>2, <1>4, QuietKeepsShape DEF Shape, ChainTypeOK
<1>6. StopInv'
  BY <1>2, <1>5, StopsAreKept DEF ChainInv
<1>7. ASSUME NEW j \in call[a].span, pc[j] = "none", Runnable(j)'
      PROVE  Ahead(a, j)'
  <2>1. j \in Continuation
    BY <1>2, <1>7, Waits
  <2>2. CASE j > f
    BY <1>4, <2>2 DEF Ahead
  <2>3. CASE j <= f
    <3>1. f \in parent
      BY <1>1, <1>2, <1>7, <2>3, Waits
    <3> QED
      BY <1>2, <1>3, <1>4, <2>1, <2>3, <3>1 DEF Ahead
  <2> QED
    BY <1>2, <2>1, <2>2, <2>3
<1>8. CallSound(a)'
  BY <1>1, <1>2, <1>3, <1>4, <1>7, ActorIsSound
<1> QED
  BY <1>4, <1>5, <1>6, <1>8, OneMoves

LEMMA CancelParentKeeps ==
  ASSUME ChainInv, NEW a \in C!Actor, C!CancelParent(a)
  PROVE  ChainInv'
<1> USE ChainAssumption DEF C!Future, C!None, Continuation
<1>1. PICK f, c : f = call[a].of /\ c = call[a].cur
  OBVIOUS
<1>2. /\ Shape /\ call[a].at = "up" /\ f \in C!Future /\ c \in C!Future /\ c <= f
      /\ canceled' = canceled \cup {c} /\ C!Goes(a, "upper", c)
      /\ UNCHANGED <<finished, stored, data, parent, executed, mark, kind, pc, attach,
                     launched, ran, stopped>>
  BY <1>1, CallsAre DEF ChainInv, Shape, CallSound, C!CancelParent, C!At, C!links
<1>3. /\ call' \in [C!Actor -> CallRecord] /\ call'[a].at = "upper" /\ call'[a].cur = c
      /\ call'[a].of = f /\ call'[a].span = call[a].span
      /\ \A b \in C!Actor : b # a => call'[b] = call[b]
  BY <1>1, <1>2, GoesTo DEF Shape
<1>4. Shape' /\ Calm
  BY <1>2, <1>3, QuietKeepsShape DEF Shape, ChainTypeOK
<1>5. StopInv'
  BY <1>2, <1>4, StopsAreKept DEF ChainInv
<1>6. ASSUME NEW j \in call[a].span, pc[j] = "none", Runnable(j)'
      PROVE  Ahead(a, j)'
  <2>1. Runnable(j) /\ j \in Continuation
    BY <1>2, <1>4, <1>6, Waits DEF Calm
  <2>2. j > f \/ j <= c + 1
    BY <1>1, <1>2, <1>6, <2>1, Waits DEF Ahead
  <2>3. j # c + 1
    BY <1>2, <1>6 DEF Runnable, Covered
  <2> QED
    BY <1>2, <1>3, <2>1, <2>2, <2>3 DEF Ahead
<1>7. CallSound(a)'
  BY <1>1, <1>2, <1>3, <1>6, ActorIsSound
<1> QED
  BY <1>3, <1>4, <1>5, <1>7, OneMoves

LEMMA UpKeeps ==
  ASSUME ChainInv, NEW a \in C!Actor, C!Up(a)
  PROVE  ChainInv'
<1> USE ChainAssumption DEF C!Future, C!None, Continuation
<1>1. PICK f, c : f = call[a].of /\ c = call[a].cur
  OBVIOUS
<1>2. /\ Shape /\ call[a].at = "upper" /\ f \in C!Future /\ c \in C!Future /\ c <= f
      /\ C!Goes(a, "up", C!Parent(c))
      /\ UNCHANGED <<canceled, finished, stored, data, parent, executed, mark, kind, pc, attach,
                     launched, ran, stopped>>
  BY <1>1 DEF ChainInv, Shape, ChainTypeOK, CallSound, C!Up, C!At, C!links, C!flags
<1>3. C!Parent(c) \in C!Future \cup {C!None} /\ C!Parent(c) <= f /\ (c \in parent => C!Parent(c) = c - 1)
  BY <1>2 DEF C!Parent
<1>4. /\ call' \in [C!Actor -> CallRecord] /\ call'[a].at = "up" /\ call'[a].cur = C!Parent(c)
      /\ call'[a].of = f /\ call'[a].span = call[a].span
      /\ \A b \in C!Actor : b # a => call'[b] = call[b]
  BY <1>1, <1>2, <1>3, GoesTo DEF Shape
<1>5. Shape' /\ Calm
  BY <1>2, <1>4, QuietKeepsShape DEF Shape, ChainTypeOK
<1>6. StopInv'
  BY <1>2, <1>5, StopsAreKept DEF ChainInv
<1>7. ASSUME NEW j \in call[a].span, pc[j] = "none", Runnable(j)'
      PROVE  Ahead(a, j)'
  <2>1. Runnable(j) /\ j \in Continuation
    BY <1>2, <1>5, <1>7, Waits DEF Calm
  <2>2. CASE j > f
    BY <1>4, <2>2 DEF Ahead
  <2>3. CASE j <= f
    <3>1. j <= c
      BY <1>1, <1>2, <1>7, <2>1, <2>3, Waits DEF Ahead
    <3>2. c \in parent
      <4>1. f < attach.next /\ attach.next \in Int
        BY <1>1, <1>2, <1>7, Waits DEF Shape, ChainTypeOK
      <4> QED
        BY <1>2, <1>7, <3>1, <4>1, Waits
    <3> QED
      BY <1>2, <1>3, <1>4, <2>1, <3>1, <3>2 DEF Ahead
  <2> QED
    BY <1>2, <2>1, <2>2, <2>3
<1>8. CallSound(a)'
  BY <1>1, <1>2, <1>3, <1>4, <1>7, ActorIsSound
<1> QED
  BY <1>4, <1>5, <1>6, <1>8, OneMoves

LEMMA TopKeeps ==
  ASSUME ChainInv, NEW a \in C!Actor, C!Top(a)
  PROVE  ChainInv'
<1> USE ChainAssumption DEF C!Future, C!None, Continuation
<1>1. /\ Shape /\ call[a].at = "up" /\ call[a].cur = C!None /\ C!Goes(a, "flag", C!None)
      /\ UNCHANGED <<canceled, finished, stored, data, parent, executed, mark, kind, pc, attach,
                     launched, ran, stopped>>
  BY DEF ChainInv, Shape, C!Top, C!At, C!links, C!flags
<1>2. /\ call' \in [C!Actor -> CallRecord] /\ call'[a].at = "flag"
      /\ call'[a].of = call[a].of /\ call'[a].span = call[a].span
      /\ \A b \in C!Actor : b # a => call'[b] = call[b]
  BY <1>1, GoesTo DEF Shape
<1>3. Shape' /\ Calm
  BY <1>1, <1>2, QuietKeepsShape DEF Shape, ChainTypeOK
<1>4. StopInv'
  BY <1>1, <1>3, StopsAreKept DEF ChainInv
<1>5. ASSUME NEW j \in call[a].span, pc[j] = "none", Runnable(j)'
      PROVE  Ahead(a, j)'
  <2>1. Runnable(j) /\ j \in Continuation
    BY <1>1, <1>3, <1>5, Waits DEF Calm
  <2>2. j > call[a].of
    BY <1>1, <1>5, <2>1, Waits DEF Ahead
  <2> QED
    BY <1>2, <2>2 DEF Ahead
<1>6. CallSound(a)'
  BY <1>1, <1>2, <1>5, ActorIsSound
<1> QED
  BY <1>2, <1>3, <1>4, <1>6, OneMoves

\* A thread calls cancel() or cancelChain().
LEMMA CallKeeps ==
  ASSUME ChainInv, NEW a \in Caller, NEW way \in Ways, NEW f \in C!Future, C!Call(a, way, f)
  PROVE  ChainInv'
<1> USE ChainAssumption DEF C!Future, C!None, Continuation
<1>1. PICK r : r = [at |-> IF way = "cancel" THEN "flag" ELSE "chain", way |-> way, of |-> f,
                    cur |-> C!None, span |-> C!Span(way, f)]
  OBVIOUS
<1>2. /\ Shape /\ a \in C!Actor /\ f < attach.next /\ call' = [call EXCEPT ![a] = r]
      /\ UNCHANGED <<canceled, finished, stored, data, parent, executed, mark, kind, pc, attach,
                     launched, ran, stopped>>
  BY <1>1 DEF ChainInv, Shape, C!Call, C!links, C!flags, C!Actor
<1>3. \A j \in C!Span(way, f) :
        /\ IsAttached(j) /\ kind[j] = "Then" /\ \A i \in f + 1..j : kind[i] = "Then"
        /\ way = "cancel" => j > f
  BY <1>2 DEF C!Span, IsAttached, Shape, ChainTypeOK
<1>4. r \in CallRecord
  <2>1. C!Span(way, f) \in SUBSET Continuation
    BY <1>3 DEF IsAttached
  <2> QED
    BY <1>1, <2>1 DEF CallRecord
<1>5. /\ call' \in [C!Actor -> CallRecord] /\ call'[a] = r
      /\ \A b \in C!Actor : b # a => call'[b] = call[b]
  BY <1>2, <1>4 DEF Shape, ChainTypeOK
<1>6. Shape' /\ Calm
  BY <1>2, <1>5, QuietKeepsShape DEF Shape, ChainTypeOK
<1>7. StopInv'
  BY <1>2, <1>6, StopsAreKept DEF ChainInv
<1>8. CallSound(a)'
  <2>1. /\ call'[a].of = f /\ call'[a].span = C!Span(way, f)
        /\ call'[a].at = IF way = "cancel" THEN "flag" ELSE "chain"
    BY <1>1, <1>5
  <2>2. \A j \in C!Span(way, f) : Ahead(a, j)'
    BY <1>3, <2>1 DEF Ahead
  <2> QED
    BY <1>2, <1>3, <2>1, <2>2 DEF CallSound, IsAttached
<1> QED
  BY <1>2, <1>5, <1>6, <1>7, <1>8, OneMoves

\* A continuation is called or skipped.
LEMMA ExecuteKeeps ==
  ASSUME ChainInv, NEW f \in C!Future, C!Execute(f)
  PROVE  ChainInv'
<1> USE ChainAssumption DEF C!Future, C!None, Continuation
<1>1. PICK skips \in BOOLEAN : skips <=> (kind[f] = "Then" /\ C!IsChainCanceled(f - 1))
  OBVIOUS
<1>2. /\ Shape /\ pc[f] = "execute" /\ f \in C!Actor /\ f \in Continuation
      /\ pc' = [pc EXCEPT ![f] = IF skips THEN "cancel" ELSE "running"]
      /\ UNCHANGED <<canceled, finished, stored, data, parent, executed, mark, kind, attach,
                     launched, stopped>>
  <2>1. Shape /\ pc[f] = "execute" /\ f \in C!Actor
    BY DEF ChainInv, Shape, C!Execute, C!Actor
  <2>2. f \in Continuation
    BY <2>1 DEF Shape, LaunchInv
  <2> QED
    BY <1>1, <2>1, <2>2 DEF C!Execute, C!links, C!flags
<1>3. /\ call' \in [C!Actor -> CallRecord] /\ \A b \in C!Actor : b # f => call'[b] = call[b]
      /\ call'[f] = call[f] \/ (call'[f].of = f /\ call'[f].at = "flag" /\ call'[f].span = {})
  <2>1. CASE skips
    <3>1. PICK r : r = [C!Idle EXCEPT !.at = "flag", !.of = f]
      OBVIOUS
    <3>2. call' = [call EXCEPT ![f] = r]
      BY <1>1, <2>1, <3>1 DEF C!Execute
    <3>3. r \in CallRecord /\ r.of = f /\ r.at = "flag" /\ r.span = {}
      BY <3>1 DEF CallRecord, C!Idle
    <3> QED
      BY <1>2, <3>2, <3>3 DEF Shape, ChainTypeOK
  <2>2. CASE ~skips
    <3>1. call' = call
      BY <1>1, <2>2 DEF C!Execute
    <3> QED
      BY <1>2, <3>1 DEF Shape, ChainTypeOK
  <2> QED
    BY <2>1, <2>2
<1>4. Shape' /\ Calm
  <2>1. PICK v \in {"cancel", "running"} : v = IF skips THEN "cancel" ELSE "running"
    OBVIOUS
  <2> QED
    BY <1>2, <1>3, <2>1, MoveKeepsShape DEF Shape, ChainTypeOK
<1>5. CallSound(f)'
  <2>1. CASE call'[f] = call[f]
    BY <1>2, <1>4, <2>1, OthersAreSound DEF ChainInv
  <2>2. CASE call'[f].of = f /\ call'[f].at = "flag" /\ call'[f].span = {}
    BY <2>2 DEF CallSound
  <2> QED
    BY <1>3, <2>1, <2>2
<1>6. StopInv'
  <2>1. CASE ran' = ran
    BY <1>2, <1>4, <2>1, StopsAreKept DEF ChainInv
  <2>2. CASE ran' # ran
    <3>1. /\ ran' = ran \cup {f} /\ pc'[f] \notin {"none", "execute"}
          /\ kind[f] = "OnCanceled" => f - 1 \in canceled
          /\ kind[f] = "Then" => ~Covered(f)
      BY <1>1, <1>2, <2>2 DEF C!Execute, C!IsChainCanceled, Covered, Shape, ChainTypeOK
    <3>2. f \notin stopped
      BY <1>2, <3>1 DEF ChainInv, StopInv, Runnable
    <3>3. \A j \in Continuation : IsAttached(j) => IsAttached(j)'
      BY <1>2 DEF IsAttached
    <3>4. \A j \in stopped : IsAttached(j)' /\ kind'[j] = "Then" /\ j \notin ran' /\ ~Runnable(j)'
      BY <1>2, <1>4, <3>1, <3>2, <3>3 DEF ChainInv, StopInv, Calm, IsAttached
    <3>5. \A j \in ran' : j \in Continuation /\ pc'[j] \notin {"none", "execute"}
      BY <1>2, <1>4, <3>1 DEF ChainInv, StopInv, Calm
    <3>6. \A j \in ran' : kind'[j] = "OnCanceled" => j - 1 \in canceled'
      BY <1>2, <3>1 DEF ChainInv, StopInv
    <3> QED
      BY <1>2, <3>4, <3>5, <3>6 DEF StopInv
  <2> QED
    BY <2>1, <2>2
<1> QED
  BY <1>2, <1>3, <1>4, <1>5, <1>6, OneMoves

\* A future finishes, calls what follows it, and is cleaned.
LEMMA ConcludeKeeps ==
  ASSUME ChainInv, NEW f \in C!Future, C!Conclude(f)
  PROVE  ChainInv'
<1> USE ChainAssumption DEF C!Future, C!None, Continuation
<1>1. Shape /\ UNCHANGED <<call, stopped, ran>>
  BY DEF ChainInv, Shape, C!Conclude, C!Finish, C!NoContinuation, C!RunContinuation, C!Restore, C!Clean
<1>2. Shape' /\ Calm
  <2>1. CASE C!Finish(f)
    <3>1. /\ pc[f] \in {"execute", "running", "cancel"} /\ pc' = [pc EXCEPT ![f] = "continue"]
          /\ finished' = finished \cup {f} /\ call' \in [C!Actor -> CallRecord]
          /\ UNCHANGED <<stored, data, parent, executed, mark, kind, attach, launched, canceled>>
      BY <1>1, <2>1 DEF C!Finish, C!links, Shape, ChainTypeOK
    <3>2. finished \subseteq finished' /\ finished' \subseteq finished \cup {f} /\ f \in finished'
      BY <3>1
    <3> QED
      BY <1>1, <3>1, <3>2, MoveKeepsShape
  <2>2. CASE C!RunContinuation(f)
    BY <1>1, <2>2, RunKeepsShape
  <2>3. CASE C!NoContinuation(f)
    <3>1. ASSUME IsAttached(f + 1)
          PROVE  pc[f + 1] = "done"
      <4>1. pc[f] = "continue" /\ ~(f \in stored /\ f \notin executed) /\ f + 1 \in Continuation
        BY <2>3, <3>1 DEF C!NoContinuation, C!IsDue, IsAttached
      <4>2. pc[f + 1] # "none"
        BY <1>1, <3>1, <4>1 DEF Shape, LinkInv
      <4> QED
        BY <1>1, <3>1, <4>1, <4>2 DEF Shape, LinkInv
    <3> QED
      BY <1>1, <2>3, <3>1, DoneKeepsShape DEF C!NoContinuation, C!links, C!flags
  <2>4. CASE C!Restore(f)
    <3>1. f + 1 < attach.next
      BY <1>1, <2>4 DEF C!Restore, Shape, LinkInv
    <3> QED
      BY <1>1, <2>4, <3>1, DoneKeepsShape DEF C!Restore, C!flags
  <2>5. CASE C!Clean(f)
    <3>1. IsAttached(f + 1) => pc[f + 1] = "done"
      BY <1>1, <2>5 DEF C!Clean, Shape, LinkInv, IsAttached
    <3> QED
      BY <1>1, <2>5, <3>1, DoneKeepsShape DEF C!Clean, C!flags
  <2> QED
    BY <2>1, <2>2, <2>3, <2>4, <2>5 DEF C!Conclude
<1>3. StopInv'
  BY <1>1, <1>2, StopsAreKept DEF ChainInv
<1> QED
  BY <1>1, <1>2, <1>3, NobodyMoves

\* The chain is built.
LEMMA BuildKeeps ==
  ASSUME ChainInv, (\E type \in {"Then", "OnCanceled"} : C!Attach(type)) \/ C!AttachReturns
  PROVE  ChainInv'
<1>1. Shape /\ UNCHANGED <<call, stopped, ran>>
  BY DEF ChainInv, Shape, C!Attach, C!AttachReturns
<1>2. Shape' /\ Calm
  BY <1>1, AttachKeepsShape, ReturnKeepsShape
<1>3. StopInv'
  BY <1>1, <1>2, StopsAreKept DEF ChainInv
<1> QED
  BY <1>1, <1>2, <1>3, NobodyMoves

LEMMA ChainInit ==
  ASSUME C!Init
  PROVE  ChainInv
<1> USE ChainAssumption DEF C!Future, C!None, Continuation, C!Init
<1>1. ChainTypeOK
  <2>1. C!Idle \in CallRecord
    BY DEF C!Idle, CallRecord
  <2>2. call \in [C!Actor -> CallRecord]
    BY <2>1
  <2>3. attach \in [next : 1..Depth + 1, at : {"out", "inline"}]
    OBVIOUS
  <2> QED
    BY <2>2, <2>3 DEF ChainTypeOK, Standing, Early
<1>2. attach.next = 1 /\ attach.at = "out"
  OBVIOUS
<1>3. LaunchInv
  BY <1>2 DEF LaunchInv, Early
<1>4. LinkInv
  BY <1>2 DEF LinkInv, IsAttached
<1>5. ASSUME NEW a \in C!Actor
      PROVE  CallSound(a)
  <2>1. call[a].at = "out"
    BY DEF C!Idle
  <2> QED
    BY <2>1 DEF CallSound
<1>6. StopInv
  BY DEF StopInv
<1> QED
  BY <1>1, <1>3, <1>4, <1>5, <1>6 DEF ChainInv

LEMMA ChainStep ==
  ASSUME ChainInv, [C!Next]_(C!vars)
  PROVE  ChainInv'
<1>1. CASE UNCHANGED C!vars
  <2>1. UNCHANGED <<canceled, finished, stored, data, parent, executed, mark, kind, pc, attach, call,
                    launched, ran, stopped>>
    BY <1>1 DEF C!vars, C!links, C!flags
  <2>2. Shape' /\ Calm
    BY <2>1, QuietKeepsShape DEF ChainInv, Shape, ChainTypeOK
  <2>3. StopInv'
    BY <2>1, <2>2, StopsAreKept DEF ChainInv, Shape
  <2> QED
    BY <2>1, <2>2, <2>3, NobodyMoves
<1>2. ASSUME NEW a \in C!Actor, C!Cancel(a)
      PROVE  ChainInv'
  BY <1>2, FlagKeeps, WalkKeeps, MarkKeeps, CancelledKeeps, ChainKeeps, CancelParentKeeps, UpKeeps,
     TopKeeps DEF C!Cancel
<1> QED
  BY <1>1, <1>2, BuildKeeps, ExecuteKeeps, ConcludeKeeps, CallKeeps DEF C!Next

\* A continuation is run once, after its parent has finished, whoever of the
\* thread that attaches it and the one that finishes its parent comes first
\* (setContinuation, runContinuation); and what cancel() or cancelChain() stopped
\* is not called, however the callers, the futures that finish and the ones
\* that skip themselves meet (cancelImpl, isChainCanceled, CompactContinuation).
THEOREM StoppedIsNeverCalled == C!Spec => []ChainIsSound
<1>1. ChainInv => ChainIsSound
  <2> SUFFICES ASSUME ChainInv
               PROVE  ChainIsSound
    OBVIOUS
  <2>1. C!LaunchedOnce
    BY ChainAssumption DEF ChainInv, LaunchInv, C!LaunchedOnce, C!Future, Continuation
  <2>2. stopped \cap ran = {}
    BY DEF ChainInv, StopInv
  <2>3. \A f \in ran : kind[f] = "OnCanceled" => f - 1 \in canceled
    BY DEF ChainInv, StopInv
  <2> QED
    BY <2>1, <2>2, <2>3 DEF ChainIsSound, C!ChainIsSound
<1> QED
  BY <1>1, ChainInit, ChainStep, PTL DEF C!Spec
=============================================================================
