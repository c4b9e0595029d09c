--------------------------- MODULE EventLoopProofs ---------------------------
(***************************************************************************)
(* Proofs about EventLoop, for any number of posters, runners and Posts.   *)
(*                                                                         *)
(* TypeOK is not inductive: a runner that finishes a task takes the head   *)
(* of its batch, which is a task only if the batch is not empty.  BatchInv *)
(* adds that; it also says that a runner about to swap the queue has       *)
(* finished its last batch, without which the swap could lose tasks.       *)
(* Relative to both, NoLostWakeup and the two statements about the live    *)
(* loop are inductive; ExactlyOnce needs OnlyPosted as well, for the task  *)
(* a Post appends to be a new one.  That a loop with one runner implements *)
(* SerialExecutor needs Numbered: the lengths of the queue, the batch and  *)
(* the finished tasks add up to the number of Posts.                       *)
(***************************************************************************)
EXTENDS EventLoop, TLAPS

\* A runner holds tasks only while it executes a batch, and inside a task it
\* holds the task.
BatchInv ==
  \A r \in Runner :
    /\ pc[r] \in {"idle", "select", "drain"} => batch[r] = <<>>
    /\ pc[r] = "task" => batch[r] # <<>>

OnlyPosted ==
  /\ Elems(queue) \subseteq 1..posted
  /\ Elems(done) \subseteq 1..posted
  /\ \A r \in Runner : Elems(batch[r]) \subseteq 1..posted

TypeInv == TypeOK /\ BatchInv

OnceInv == ExactlyOnce /\ OnlyPosted

-----------------------------------------------------------------------------
\* Sequences as the loop uses them.

LEMMA ElemsEmpty == Elems(<<>>) = {} /\ NoRepeat(<<>>)
  BY DEF Elems, NoRepeat

LEMMA ElemsAppend ==
  ASSUME NEW S, NEW s \in Seq(S), NEW e \in S
  PROVE  /\ Append(s, e) \in Seq(S)
         /\ Elems(Append(s, e)) = Elems(s) \cup {e}
         /\ NoRepeat(s) /\ e \notin Elems(s) => NoRepeat(Append(s, e))
<1>1. /\ Append(s, e) \in Seq(S)
      /\ Len(Append(s, e)) = Len(s) + 1
      /\ Append(s, e)[Len(s) + 1] = e
      /\ \A i \in 1..Len(s) : Append(s, e)[i] = s[i]
  OBVIOUS
<1>2. Elems(Append(s, e)) = Elems(s) \cup {e}
  BY <1>1 DEF Elems
<1>3. ASSUME NoRepeat(s), e \notin Elems(s)
      PROVE  NoRepeat(Append(s, e))
  BY <1>1, <1>3 DEF Elems, NoRepeat
<1> QED
  BY <1>1, <1>2, <1>3

LEMMA ElemsHeadTail ==
  ASSUME NEW S, NEW s \in Seq(S), s # <<>>
  PROVE  /\ Head(s) \in S
         /\ Tail(s) \in Seq(S)
         /\ Elems(s) = Elems(Tail(s)) \cup {Head(s)}
         /\ NoRepeat(s) => NoRepeat(Tail(s)) /\ Head(s) \notin Elems(Tail(s))
<1>1. /\ Len(s) \in Nat /\ Len(s) >= 1
      /\ Head(s) = s[1] /\ Head(s) \in S
      /\ Tail(s) \in Seq(S)
      /\ Len(Tail(s)) = Len(s) - 1
      /\ \A i \in 1..Len(Tail(s)) : Tail(s)[i] = s[i + 1]
  OBVIOUS
<1>2. ASSUME NEW x \in Elems(s) PROVE x \in Elems(Tail(s)) \cup {Head(s)}
  <2>1. PICK i \in 1..Len(s) : x = s[i]
    BY DEF Elems
  <2>2. CASE i = 1
    BY <1>1, <2>1, <2>2
  <2>3. CASE i # 1
    <3>1. i - 1 \in 1..Len(Tail(s)) /\ Tail(s)[i - 1] = s[i]
      BY <1>1, <2>3
    <3> QED
      BY <3>1, <2>1 DEF Elems
  <2> QED
    BY <2>2, <2>3
<1>3. ASSUME NEW x \in Elems(Tail(s)) \cup {Head(s)} PROVE x \in Elems(s)
  BY <1>1 DEF Elems
<1>4. ASSUME NoRepeat(s)
      PROVE  NoRepeat(Tail(s)) /\ Head(s) \notin Elems(Tail(s))
  BY <1>1, <1>4 DEF NoRepeat, Elems
<1> QED
  BY <1>1, <1>2, <1>3, <1>4

-----------------------------------------------------------------------------
\* Types and batches are preserved by every step.
LEMMA TypeInvariant == Spec => []TypeInv
<1>1. Init => TypeInv
  <2> SUFFICES ASSUME Init PROVE TypeInv
    OBVIOUS
  <2>1. <<>> \in Seq(Task)
    OBVIOUS
  <2>2. batch \in [Runner -> Seq(Task)]
    BY <2>1 DEF Init
  <2>3. queue \in Seq(Task) /\ done \in Seq(Task)
    BY <2>1 DEF Init
  <2>4. pc \in [Runner -> RunPC]
    BY DEF Init, RunPC
  <2>5. quitOpen \in [Runner -> BOOLEAN]
    BY Zenon DEF Init
  <2>6. posted \in 0..MaxPost
    BY EventLoopAssumption DEF Init
  <2>7. wakeup \in BOOLEAN /\ running \in BOOLEAN
    BY DEF Init
  <2>8. sending \in SUBSET Goroutine /\ owner \in Runner \cup {NoRunner}
    BY DEF Init
  <2>9. BatchInv
    BY DEF Init, BatchInv
  <2> QED
    BY <2>2, <2>3, <2>4, <2>5, <2>6, <2>7, <2>8, <2>9 DEF TypeInv, TypeOK
<1>2. TypeInv /\ [Next]_vars => TypeInv'
  <2> SUFFICES ASSUME TypeOK, BatchInv, [Next]_vars PROVE TypeOK' /\ BatchInv'
    BY DEF TypeInv
  <2> USE DEF TypeOK, BatchInv
  <2>1. ASSUME NEW g \in Goroutine, PostAppend(g) PROVE TypeOK' /\ BatchInv'
    <3>1. posted + 1 \in Task /\ posted + 1 \in 0..MaxPost
      BY <2>1, EventLoopAssumption DEF PostAppend, Task
    <3>2. queue' \in Seq(Task)
      BY <2>1, <3>1 DEF PostAppend
    <3> QED
      BY <2>1, <3>1, <3>2 DEF PostAppend, loopVars
  <2>2. ASSUME NEW g \in Goroutine, PostWakeup(g) PROVE TypeOK' /\ BatchInv'
    BY <2>2 DEF PostWakeup, loopVars
  <2>3. ASSUME NEW r \in Runner, RunEnter(r) PROVE TypeOK' /\ BatchInv'
    BY <2>3 DEF RunEnter, RunPC
  <2>4. ASSUME NEW r \in Runner, RunQuit(r) PROVE TypeOK' /\ BatchInv'
    BY <2>4 DEF RunQuit, RunPC, loopVars
  <2>5. ASSUME NEW r \in Runner, RunReceive(r) PROVE TypeOK' /\ BatchInv'
    BY <2>5 DEF RunReceive, RunPC, loopVars
  <2>6. ASSUME NEW r \in Runner, RunDrain(r) PROVE TypeOK' /\ BatchInv'
    <3>1. queue' \in Seq(Task)
      BY <2>6 DEF RunDrain
    <3>2. batch' \in [Runner -> Seq(Task)]
      BY <2>6 DEF RunDrain
    <3>3. pc' \in [Runner -> RunPC]
      BY <2>6 DEF RunDrain, RunPC
    <3>4. BatchInv'
      BY <2>6 DEF RunDrain
    <3> QED
      BY <2>6, <3>1, <3>2, <3>3, <3>4 DEF RunDrain, loopVars
  <2>7. ASSUME NEW r \in Runner, TaskBegin(r) PROVE TypeOK' /\ BatchInv'
    BY <2>7 DEF TaskBegin, RunPC, loopVars
  <2>8. ASSUME NEW r \in Runner, TaskEnd(r) PROVE TypeOK' /\ BatchInv'
    <3>1. batch[r] \in Seq(Task) /\ batch[r] # <<>>
      BY <2>8 DEF TaskEnd
    <3>2. Head(batch[r]) \in Task /\ Tail(batch[r]) \in Seq(Task)
      BY <3>1, ElemsHeadTail
    <3>3. done' \in Seq(Task)
      BY <2>8, <3>2, ElemsAppend DEF TaskEnd
    <3>4. batch' \in [Runner -> Seq(Task)]
      BY <2>8, <3>2 DEF TaskEnd
    <3>5. pc' \in [Runner -> RunPC]
      BY <2>8 DEF TaskEnd, RunPC
    <3>6. BatchInv'
      BY <2>8 DEF TaskEnd
    <3> QED
      BY <2>8, <3>3, <3>4, <3>5, <3>6 DEF TaskEnd, loopVars
  <2>9. ASSUME NEW r \in Runner, BatchEnd(r) PROVE TypeOK' /\ BatchInv'
    BY <2>9 DEF BatchEnd, RunPC, loopVars
  <2>10. CASE Stop
    BY <2>10 DEF Stop
  <2>11. CASE UNCHANGED vars
    BY <2>11 DEF vars
  <2> QED
    BY <2>1, <2>2, <2>3, <2>4, <2>5, <2>6, <2>7, <2>8, <2>9, <2>10, <2>11
       DEF Next, Post, RunLoop
<1> QED
  BY <1>1, <1>2, PTL DEF Spec

\* Every reachable state is well typed.
THEOREM TypeCorrect == Spec => []TypeOK
<1>1. TypeInv => TypeOK
  BY DEF TypeInv
<1> QED
  BY <1>1, TypeInvariant, PTL

-----------------------------------------------------------------------------
\* Whenever tasks are queued a wakeup is in the channel, under way, or being
\* answered.
THEOREM NoWakeupIsLost == Spec => []NoLostWakeup
<1>1. Init => NoLostWakeup
  BY DEF Init, NoLostWakeup
<1>2. TypeInv /\ NoLostWakeup /\ [Next]_vars => NoLostWakeup'
  <2> SUFFICES ASSUME TypeOK, NoLostWakeup, [Next]_vars PROVE NoLostWakeup'
    BY DEF TypeInv
  <2> USE DEF TypeOK, NoLostWakeup
  <2>1. ASSUME NEW g \in Goroutine, PostAppend(g) PROVE NoLostWakeup'
    BY <2>1 DEF PostAppend
  <2>2. ASSUME NEW g \in Goroutine, PostWakeup(g) PROVE NoLostWakeup'
    BY <2>2 DEF PostWakeup
  <2>3. ASSUME NEW r \in Runner, RunEnter(r) PROVE NoLostWakeup'
    BY <2>3 DEF RunEnter
  <2>4. ASSUME NEW r \in Runner, RunQuit(r) PROVE NoLostWakeup'
    BY <2>4 DEF RunQuit
  <2>5. ASSUME NEW r \in Runner, RunReceive(r) PROVE NoLostWakeup'
    BY <2>5 DEF RunReceive
  <2>6. ASSUME NEW r \in Runner, RunDrain(r) PROVE NoLostWakeup'
    BY <2>6 DEF RunDrain
  <2>7. ASSUME NEW r \in Runner, TaskBegin(r) PROVE NoLostWakeup'
    BY <2>7 DEF TaskBegin
  <2>8. ASSUME NEW r \in Runner, TaskEnd(r) PROVE NoLostWakeup'
    BY <2>8 DEF TaskEnd
  <2>9. ASSUME NEW r \in Runner, BatchEnd(r) PROVE NoLostWakeup'
    BY <2>9 DEF BatchEnd
  <2>10. CASE Stop
    BY <2>10 DEF Stop
  <2>11. CASE UNCHANGED vars
    BY <2>11 DEF vars
  <2> QED
    BY <2>1, <2>2, <2>3, <2>4, <2>5, <2>6, <2>7, <2>8, <2>9, <2>10, <2>11
       DEF Next, Post, RunLoop
<1> QED
  BY <1>1, <1>2, TypeInvariant, PTL DEF Spec

-----------------------------------------------------------------------------
\* The steps that touch neither the loop's flags nor the place of a runner
\* outside Run keep the live loop.
LEMMA LiveStep ==
  ASSUME TypeOK, LoopIsKnown, UNCHANGED loopVars,
         \A r \in Runner : pc'[r] = "idle" <=> pc[r] = "idle"
  PROVE  LoopIsKnown'
  BY DEF LoopIsKnown, OneLiveLoop, RunningIsServed, loopVars

\* The loop that is live is the one Stop reaches, and it has a goroutine in it.
THEOREM LoopIsLive == Spec => []LoopIsKnown
<1>1. Init => LoopIsKnown
  BY DEF Init, LoopIsKnown, OneLiveLoop, RunningIsServed
<1>2. TypeInv /\ LoopIsKnown /\ [Next]_vars => LoopIsKnown'
  <2> SUFFICES ASSUME TypeOK, LoopIsKnown, [Next]_vars PROVE LoopIsKnown'
    BY DEF TypeInv
  <2>1. ASSUME NEW g \in Goroutine, Post(g) PROVE LoopIsKnown'
    BY <2>1, LiveStep DEF Post, PostAppend, PostWakeup
  <2>2. ASSUME NEW r \in Runner, RunEnter(r) PROVE LoopIsKnown'
    BY <2>2 DEF RunEnter, LoopIsKnown, OneLiveLoop, RunningIsServed, TypeOK
  <2>3. ASSUME NEW r \in Runner, RunQuit(r) PROVE LoopIsKnown'
    BY <2>3 DEF RunQuit, loopVars, LoopIsKnown, OneLiveLoop, RunningIsServed, TypeOK
  <2>4. ASSUME NEW r \in Runner, RunLoop(r) PROVE LoopIsKnown'
    <3>1. UNCHANGED loopVars
      BY <2>4 DEF RunLoop, RunReceive, RunDrain, TaskBegin, TaskEnd, BatchEnd
    <3>2. \A q \in Runner : pc'[q] = "idle" <=> pc[q] = "idle"
      BY <2>4 DEF RunLoop, RunReceive, RunDrain, TaskBegin, TaskEnd, BatchEnd, TypeOK
    <3> QED
      BY <3>1, <3>2, LiveStep
  <2>5. CASE Stop
    BY <2>5 DEF Stop, LoopIsKnown, OneLiveLoop, RunningIsServed, TypeOK
  <2>6. CASE UNCHANGED vars
    BY <2>6, LiveStep DEF vars, loopVars
  <2> QED
    BY <2>1, <2>2, <2>3, <2>4, <2>5, <2>6 DEF Next
<1> QED
  BY <1>1, <1>2, TypeInvariant, PTL DEF Spec

-----------------------------------------------------------------------------
\* A step that leaves the queue, the batches and the finished tasks alone keeps
\* every task where it is.
LEMMA OnceStutter ==
  ASSUME OnceInv, UNCHANGED <<queue, batch, done, posted>>
  PROVE  OnceInv'
  BY DEF OnceInv, ExactlyOnce, NoneLost, NoneTwice, OnlyPosted

LEMMA OncePost ==
  ASSUME TypeOK, OnceInv, NEW g \in Goroutine, PostAppend(g)
  PROVE  OnceInv'
<1> DEFINE k == posted + 1
<1> USE DEF TypeOK
<1>1. /\ k \in Task /\ posted' = k
      /\ 1..posted' = (1..posted) \cup {k} /\ k \notin 1..posted
  <2>1. posted \in Nat /\ posted < MaxPost /\ MaxPost \in Nat /\ posted' = posted + 1
    BY EventLoopAssumption DEF PostAppend
  <2>2. k \in Task /\ posted' = k /\ k \notin 1..posted
    BY <2>1 DEF Task
  <2>3. 1..(posted + 1) = (1..posted) \cup {posted + 1}
    BY <2>1
  <2> QED
    BY <2>1, <2>2, <2>3
<1>2. queue' = Append(queue, k) /\ UNCHANGED <<batch, done>>
  BY DEF PostAppend
<1>3. Elems(queue') = Elems(queue) \cup {k}
  BY <1>1, <1>2, ElemsAppend
<1>4. k \notin Elems(queue) /\ k \notin Elems(done)
      /\ \A r \in Runner : k \notin Elems(batch[r])
  BY <1>1 DEF OnceInv, OnlyPosted
<1>5. NoRepeat(queue')
  BY <1>1, <1>2, <1>4, ElemsAppend DEF OnceInv, ExactlyOnce, NoneTwice
<1> HIDE DEF k
<1>6. NoneLost'
  BY <1>1, <1>2, <1>3 DEF OnceInv, ExactlyOnce, NoneLost
<1>7. NoneTwice'
  BY <1>2, <1>3, <1>4, <1>5 DEF OnceInv, ExactlyOnce, NoneTwice
<1>8. OnlyPosted'
  BY <1>1, <1>2, <1>3 DEF OnceInv, OnlyPosted
<1> QED
  BY <1>6, <1>7, <1>8 DEF OnceInv, ExactlyOnce

LEMMA OnceDrain ==
  ASSUME TypeOK, BatchInv, OnceInv, NEW r \in Runner, RunDrain(r)
  PROVE  OnceInv'
<1> USE DEF TypeOK
<1>1. batch[r] = <<>> /\ Elems(batch[r]) = {}
  BY ElemsEmpty DEF RunDrain, BatchInv
<1>2. /\ queue' = <<>> /\ Elems(queue') = {} /\ NoRepeat(queue')
      /\ batch'[r] = queue
      /\ \A q \in Runner : q # r => batch'[q] = batch[q]
      /\ UNCHANGED <<done, posted>>
  BY ElemsEmpty DEF RunDrain
<1>3. NoneLost'
  <2> SUFFICES ASSUME NEW k \in 1..posted
      PROVE  \/ k \in Elems(queue') \/ k \in Elems(done)
             \/ \E q \in Runner : k \in Elems(batch'[q])
    BY <1>2 DEF NoneLost
  <2>1. CASE k \in Elems(queue)
    BY <2>1, <1>2
  <2>2. CASE k \in Elems(done)
    BY <2>2
  <2>3. CASE \E q \in Runner : k \in Elems(batch[q])
    <3>1. PICK q \in Runner : k \in Elems(batch[q])
      BY <2>3
    <3>2. q # r
      BY <3>1, <1>1
    <3> QED
      BY <3>1, <3>2, <1>2
  <2> QED
    BY <2>1, <2>2, <2>3 DEF OnceInv, ExactlyOnce, NoneLost
<1>4. NoneTwice'
  <2>1. NoRepeat(queue') /\ NoRepeat(done') /\ Elems(queue') \cap Elems(done') = {}
    BY <1>2 DEF OnceInv, ExactlyOnce, NoneTwice
  <2>2. ASSUME NEW q \in Runner
        PROVE  /\ NoRepeat(batch'[q])
               /\ Elems(batch'[q]) \cap Elems(queue') = {}
               /\ Elems(batch'[q]) \cap Elems(done') = {}
    BY <1>2 DEF OnceInv, ExactlyOnce, NoneTwice
  <2>3. ASSUME NEW q \in Runner, NEW p \in Runner, p # q
        PROVE  Elems(batch'[q]) \cap Elems(batch'[p]) = {}
    BY <1>2, <2>3 DEF OnceInv, ExactlyOnce, NoneTwice
  <2> QED
    BY <2>1, <2>2, <2>3 DEF NoneTwice
<1>5. OnlyPosted'
  BY <1>2 DEF OnceInv, OnlyPosted
<1> QED
  BY <1>3, <1>4, <1>5 DEF OnceInv, ExactlyOnce

LEMMA OnceTaskEnd ==
  ASSUME TypeOK, BatchInv, OnceInv, NEW r \in Runner, TaskEnd(r)
  PROVE  OnceInv'
<1> USE DEF TypeOK
<1> DEFINE k == Head(batch[r])
<1>1. batch[r] \in Seq(Task) /\ batch[r] # <<>> /\ NoRepeat(batch[r])
  BY DEF TaskEnd, BatchInv, OnceInv, ExactlyOnce, NoneTwice
<1>2. /\ k \in Task
      /\ Elems(batch[r]) = Elems(Tail(batch[r])) \cup {k}
      /\ NoRepeat(Tail(batch[r])) /\ k \notin Elems(Tail(batch[r]))
  BY <1>1, ElemsHeadTail
<1>3. /\ batch'[r] = Tail(batch[r])
      /\ \A q \in Runner : q # r => batch'[q] = batch[q]
      /\ done' = Append(done, k)
      /\ UNCHANGED <<queue, posted>>
  BY DEF TaskEnd
<1>4. Elems(done') = Elems(done) \cup {k}
  BY <1>2, <1>3, ElemsAppend
<1>5. k \notin Elems(done) /\ k \notin Elems(queue)
      /\ \A q \in Runner : q # r => k \notin Elems(batch[q])
  BY <1>2 DEF OnceInv, ExactlyOnce, NoneTwice
<1>6. NoRepeat(done')
  BY <1>2, <1>3, <1>5, ElemsAppend DEF OnceInv, ExactlyOnce, NoneTwice
<1> HIDE DEF k
<1>7. NoneLost'
  <2> SUFFICES ASSUME NEW j \in 1..posted
      PROVE  \/ j \in Elems(queue) \/ j \in Elems(done')
             \/ \E q \in Runner : j \in Elems(batch'[q])
    BY <1>3 DEF NoneLost
  <2>1. CASE j \in Elems(queue) \/ j \in Elems(done)
    BY <2>1, <1>4
  <2>2. CASE \E q \in Runner : j \in Elems(batch[q])
    BY <2>2, <1>2, <1>3, <1>4
  <2> QED
    BY <2>1, <2>2 DEF OnceInv, ExactlyOnce, NoneLost
<1>8. NoneTwice'
  <2>1. NoRepeat(queue') /\ NoRepeat(done') /\ Elems(queue') \cap Elems(done') = {}
    BY <1>3, <1>4, <1>5, <1>6 DEF OnceInv, ExactlyOnce, NoneTwice
  <2>2. ASSUME NEW q \in Runner
        PROVE  /\ NoRepeat(batch'[q])
               /\ Elems(batch'[q]) \subseteq Elems(batch[q])
               /\ k \notin Elems(batch'[q])
    BY <1>2, <1>3, <1>5 DEF OnceInv, ExactlyOnce, NoneTwice
  <2>3. ASSUME NEW q \in Runner
        PROVE  /\ Elems(batch'[q]) \cap Elems(queue') = {}
               /\ Elems(batch'[q]) \cap Elems(done') = {}
    BY <1>3, <1>4, <2>2 DEF OnceInv, ExactlyOnce, NoneTwice
  <2>4. ASSUME NEW q \in Runner, NEW p \in Runner, p # q
        PROVE  Elems(batch'[q]) \cap Elems(batch'[p]) = {}
    BY <2>2, <2>4 DEF OnceInv, ExactlyOnce, NoneTwice
  <2> QED
    BY <2>1, <2>2, <2>3, <2>4 DEF NoneTwice
<1>9. OnlyPosted'
  <2>1. k \in 1..posted /\ \A q \in Runner : Elems(batch'[q]) \subseteq Elems(batch[q])
    BY <1>2, <1>3 DEF OnceInv, OnlyPosted
  <2> QED
    BY <2>1, <1>3, <1>4 DEF OnceInv, OnlyPosted
<1> QED
  BY <1>7, <1>8, <1>9 DEF OnceInv, ExactlyOnce

\* No task is lost and none is executed twice, however Post, Run and Stop
\* interleave.
THEOREM TasksAreExactlyOnce == Spec => []ExactlyOnce
<1>1. Init => OnceInv
  <2> SUFFICES ASSUME Init PROVE OnceInv
    OBVIOUS
  <2>1. 1..posted = {} /\ queue = <<>> /\ done = <<>>
        /\ \A r \in Runner : batch[r] = <<>>
    BY DEF Init
  <2> QED
    BY <2>1, ElemsEmpty DEF OnceInv, ExactlyOnce, NoneLost, NoneTwice, OnlyPosted
<1>2. TypeInv /\ OnceInv /\ [Next]_vars => OnceInv'
  <2> SUFFICES ASSUME TypeOK, BatchInv, OnceInv, [Next]_vars PROVE OnceInv'
    BY DEF TypeInv
  <2>1. ASSUME NEW g \in Goroutine, PostWakeup(g) PROVE OnceInv'
    BY <2>1, OnceStutter DEF PostWakeup
  <2>2. ASSUME NEW r \in Runner, RunEnter(r) \/ RunQuit(r) \/ RunReceive(r)
                                 \/ TaskBegin(r) \/ BatchEnd(r)
        PROVE  OnceInv'
    BY <2>2, OnceStutter DEF RunEnter, RunQuit, RunReceive, TaskBegin, BatchEnd
  <2>3. CASE Stop \/ UNCHANGED vars
    BY <2>3, OnceStutter DEF Stop, vars
  <2> QED
    BY <2>1, <2>2, <2>3, OncePost, OnceDrain, OnceTaskEnd DEF Next, Post, RunLoop
<1>3. OnceInv => ExactlyOnce
  BY DEF OnceInv
<1> QED
  BY <1>1, <1>2, <1>3, TypeInvariant, PTL DEF Spec

-----------------------------------------------------------------------------
\* Concatenations as the refinement uses them.

LEMMA QueueGrows ==
  ASSUME NEW S, NEW b \in Seq(S), NEW q \in Seq(S), NEW e \in S
  PROVE  b \o Append(q, e) = Append(b \o q, e) /\ Len(b \o q) = Len(b) + Len(q)
OBVIOUS

LEMMA BatchIsTaken ==
  ASSUME NEW S, NEW q \in Seq(S)
  PROVE  q \o <<>> = <<>> \o q
OBVIOUS

LEMMA TaskIsTaken ==
  ASSUME NEW S, NEW b \in Seq(S), NEW q \in Seq(S), b # <<>>
  PROVE  /\ b \o q # <<>>
         /\ Head(b \o q) = Head(b)
         /\ Tail(b \o q) = Tail(b) \o q
OBVIOUS

\* With one runner the numbers of the tasks that are anywhere add up to the
\* number of Posts: the next Post gives the number that Submit gives.
Numbered(r) == posted = Len(done) + Len(batch[r]) + Len(queue)

LEMMA NumberedStep ==
  ASSUME NEW r, Runner = {r}, TypeInv, Numbered(r), [Next]_vars
  PROVE  Numbered(r)'
<1> USE DEF TypeInv, TypeOK, Numbered
<1>1. /\ queue \in Seq(Task) /\ done \in Seq(Task) /\ batch[r] \in Seq(Task)
      /\ Len(queue) \in Nat /\ Len(done) \in Nat /\ Len(batch[r]) \in Nat
  OBVIOUS
<1>2. ASSUME NEW g \in Goroutine, PostAppend(g)
      PROVE  Numbered(r)'
  <2>1. posted + 1 \in Task
    BY <1>2, EventLoopAssumption DEF PostAppend, Task
  <2>2. Len(queue') = Len(queue) + 1
    BY <1>1, <1>2, <2>1, ElemsAppend DEF PostAppend
  <2> QED
    BY <1>1, <1>2, <2>2 DEF PostAppend
<1>3. CASE RunDrain(r)
  <2>1. batch[r] = <<>> /\ queue' = <<>> /\ batch'[r] = queue /\ UNCHANGED <<done, posted>>
    BY <1>3 DEF RunDrain, BatchInv
  <2> QED
    BY <1>1, <2>1
<1>4. CASE TaskEnd(r)
  <2>1. /\ batch[r] # <<>> /\ batch'[r] = Tail(batch[r]) /\ done' = Append(done, Head(batch[r]))
        /\ UNCHANGED <<queue, posted>>
    BY <1>4 DEF TaskEnd, BatchInv
  <2>2. Len(Tail(batch[r])) = Len(batch[r]) - 1 /\ Len(Append(done, Head(batch[r]))) = Len(done) + 1
    BY <1>1, <2>1
  <2> QED
    BY <1>1, <2>1, <2>2
<1>5. CASE UNCHANGED <<queue, batch, posted, done>>
  BY <1>5
<1>6. CASE UNCHANGED vars
  BY <1>6 DEF vars
<1> QED
  BY <1>2, <1>3, <1>4, <1>5, <1>6
     DEF Next, Post, PostWakeup, RunEnter, RunQuit, RunLoop, RunReceive, TaskBegin, BatchEnd, Stop

\* Every step of the loop is a Submit, an Execute or nothing to who posts.
LEMMA ExecutorStep ==
  ASSUME NEW r, Runner = {r}, TypeInv, Numbered(r), [Next]_vars
  PROVE  [Executor!Next]_(Executor!vars)
<1> USE DEF TypeInv, TypeOK
<1>1. OnlyRunner = r
  BY DEF OnlyRunner
<1>2. queue \in Seq(Task) /\ done \in Seq(Task) /\ batch[r] \in Seq(Task)
  OBVIOUS
<1>3. ASSUME NEW g \in Goroutine, PostAppend(g)
      PROVE  Executor!Submit
  <2>1. posted + 1 \in Task /\ posted + 1 <= MaxPost
    BY <1>3, EventLoopAssumption DEF PostAppend, Task
  <2>2. posted + 1 = Len(done) + Len(batch[r] \o queue) + 1
    BY <1>2, <2>1, QueueGrows DEF Numbered
  <2>3. /\ batch[r] \o Append(queue, posted + 1) = Append(batch[r] \o queue, posted + 1)
        /\ queue' = Append(queue, posted + 1) /\ UNCHANGED <<batch, done>>
    BY <1>2, <1>3, <2>1, QueueGrows DEF PostAppend
  <2> QED
    BY <1>1, <2>1, <2>2, <2>3 DEF Executor!Submit
<1>4. CASE RunDrain(r)
  <2>1. batch[r] = <<>> /\ queue' = <<>> /\ batch'[r] = queue /\ UNCHANGED done
    BY <1>4 DEF RunDrain, BatchInv
  <2> QED
    BY <1>1, <1>2, <2>1, BatchIsTaken DEF Executor!vars
<1>5. CASE TaskEnd(r)
  <2>1. /\ batch[r] # <<>> /\ batch'[r] = Tail(batch[r]) /\ done' = Append(done, Head(batch[r]))
        /\ UNCHANGED queue
    BY <1>5 DEF TaskEnd, BatchInv
  <2>2. /\ batch[r] \o queue # <<>> /\ Head(batch[r] \o queue) = Head(batch[r])
        /\ Tail(batch[r] \o queue) = Tail(batch[r]) \o queue
    BY <1>2, <2>1, TaskIsTaken
  <2> QED
    BY <1>1, <2>1, <2>2 DEF Executor!Next, Executor!Execute
<1>6. CASE UNCHANGED <<queue, batch, done>>
  BY <1>6 DEF Executor!vars
<1>7. CASE UNCHANGED vars
  BY <1>6, <1>7 DEF vars
<1> QED
  BY <1>3, <1>4, <1>5, <1>6, <1>7
     DEF Next, Post, PostWakeup, RunEnter, RunQuit, RunLoop, RunReceive, TaskBegin, BatchEnd, Stop,
         Executor!Next

\* While one goroutine at a time is inside Run the loop is a serial executor:
\* tasks finish in the order in which they were posted, across any sequence of
\* Stops and Runs and with tasks that post.
THEOREM OneRunnerIsSerial ==
  ASSUME NEW r, Runner = {r}
  PROVE  Spec => IsSerialExecutor
<1>1. Init => Numbered(r)
  BY DEF Init, Numbered
<1>2. TypeInv /\ Numbered(r) /\ [Next]_vars => Numbered(r)'
  BY NumberedStep
<1>3. Init => Executor!Init
  <2>1. SUFFICES ASSUME Init PROVE Executor!Init
    OBVIOUS
  <2>2. OnlyRunner = r
    BY DEF OnlyRunner
  <2>3. batch[r] = <<>> /\ queue = <<>> /\ done = <<>>
    BY <2>1 DEF Init
  <2> QED
    BY <2>2, <2>3 DEF Executor!Init
<1>4. TypeInv /\ Numbered(r) /\ [Next]_vars => [Executor!Next]_(Executor!vars)
  BY ExecutorStep
<1> QED
  BY <1>1, <1>2, <1>3, <1>4, TypeInvariant, PTL DEF Spec, IsSerialExecutor, Executor!Spec
=============================================================================
