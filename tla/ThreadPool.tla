----------------------------- MODULE ThreadPool -----------------------------
(***************************************************************************)
(* The thread pool of the core library,                                    *)
(* src/corelib/thread/bobuihreadpool.cpp.                                  *)
(*                                                                         *)
(* Everything in the pool's private object is guarded by one mutex, so a   *)
(* critical section is a step, and the variable d is the private object    *)
(* together with the fields of its threads that are set under the mutex.   *)
(* Between its critical sections a pool thread runs a task, waits on       *)
(* runnableReady, or returns from run(); a caller of waitForDone waits on  *)
(* noActiveThreads or, in reset(), for threads to finish.                  *)
(*                                                                         *)
(* Tasks are numbered in the order in which they are submitted.  A thread  *)
(* object that is deleted frees its number.                                *)
(***************************************************************************)
EXTENDS Integers, Sequences, FiniteSets

CONSTANTS
  Thread,     \* bound: numbers of thread objects that exist at a time
  MaxTask,    \* bound: number of tasks submitted in a behaviour
  Priority,   \* priorities that start is called with
  PageSize,   \* entries of a QueuePage, 256 in the code
  MaxThreads, \* values that setMaxThreadCount is called with
  Reserve,    \* bound: threads reserved, or released without a reservation
  Waiter      \* threads that call waitForDone

ASSUME PoolAssumption ==
  /\ Thread \subseteq Nat /\ MaxTask \in Nat
  /\ Priority \subseteq Int /\ PageSize \in Nat \ {0}
  /\ MaxThreads \subseteq Int /\ MaxThreads # {} /\ Reserve \in Nat

VARIABLES
  d,      \* the private object
  next,   \* the number of tasks submitted
  state,  \* state[k]: "new", "started", "over"
  due,    \* history: due[w], the tasks submitted when w called waitForDone
  copy    \* copy[w]: allThreadsCopy, the threads that w has yet to delete

vars == <<d, next, state, due, copy>>

Task == 1..MaxTask
NoTask == 0
Top == 1 + CHOOSE p \in Priority : \A q \in Priority : q <= p  \* stands for INT_MAX

Page == [priority : Priority \cup {0, Top}, tasks : Seq(Task), room : 0..PageSize]

PoolTypeOK ==
  /\ d.queue \in Seq(Page)
  /\ d.allThreads \subseteq Thread
  /\ d.waitingThreads \in Seq(Thread) /\ d.expiredThreads \in Seq(Thread)
  /\ d.activeThreads \in Nat
  /\ d.reservedThreads \in -Reserve..Reserve
  /\ d.maxThreads \in MaxThreads
  /\ d.pc \in [Thread -> {"none", "start", "run", "relock", "wait", "finished"}]
  /\ d.runnable \in [Thread -> Task \cup {NoTask}]
  /\ d.woken \in [Thread -> BOOLEAN]
  /\ d.waiter \in [Waiter -> {"out", "check", "wait", "reset"}]
  /\ next \in 0..MaxTask
  /\ state \in [Task -> {"new", "started", "over"}]
  /\ due \in [Waiter -> SUBSET Task]
  /\ copy \in [Waiter -> SUBSET Thread]

Init ==
  /\ d = [queue |-> <<>>, allThreads |-> {}, waitingThreads |-> <<>>,
          expiredThreads |-> <<>>, activeThreads |-> 0, reservedThreads |-> 0,
          maxThreads |-> CHOOSE m \in MaxThreads : \A n \in MaxThreads : n <= m,
          pc |-> [t \in Thread |-> "none"],
          runnable |-> [t \in Thread |-> NoTask],
          woken |-> [t \in Thread |-> FALSE],
          waiter |-> [w \in Waiter |-> "out"]]
  /\ next = 0
  /\ state = [k \in Task |-> "new"]
  /\ due = [w \in Waiter |-> {}]
  /\ copy = [w \in Waiter |-> {}]

-----------------------------------------------------------------------------
\* The functions of the private class, from one state s of d to the next.

ThreadLimit(s) == IF s.maxThreads > 1 THEN s.maxThreads ELSE 1

\* Threads that work or are about to: all but the waiting and the expired ones.
Working(s) ==
  Cardinality(s.allThreads) - Len(s.waitingThreads) - Len(s.expiredThreads)

activeThreadCount(s) == Working(s) + s.reservedThreads

\* Fault: off by one at the limit.
areMoreThreadsActive(s) == activeThreadCount(s) > ThreadLimit(s) /\ Working(s) >= 1

areAllThreadsActive(s) == activeThreadCount(s) >= ThreadLimit(s) /\ Working(s) >= 1

tooManyThreadsActive(s) == activeThreadCount(s) > ThreadLimit(s) /\ Working(s) > 1

\* Into the first page of the priority that is not full, or into a new page
\* behind all pages of this priority and above.
enqueueTask(s, task, priority) ==
  LET q == s.queue
      fits(i) == q[i].priority = priority /\ q[i].room > 0
      fresh == [priority |-> priority, tasks |-> <<task>>, room |-> PageSize - 1]
      above(p) == p.priority >= priority
      below(p) == p.priority < priority
  IN  IF \E i \in DOMAIN q : fits(i)
      THEN LET i == CHOOSE j \in DOMAIN q : fits(j) /\ \A k \in 1..(j - 1) : ~fits(k)
           IN  [s EXCEPT !.queue[i].tasks = Append(@, task),
                         !.queue[i].room = @ - 1]
      ELSE [s EXCEPT !.queue = SelectSeq(q, above) \o <<fresh>> \o SelectSeq(q, below)]

\* A new thread object is made for the task.
startThread(s, task) ==
  LET t == CHOOSE t \in Thread :
             s.pc[t] = "none" /\ \A u \in Thread : s.pc[u] = "none" => t <= u
  IN  [s EXCEPT !.allThreads = @ \cup {t}, !.activeThreads = @ + 1,
                !.runnable[t] = task, !.pc[t] = "start"]

\* Fault: nobody is woken.
recycleSilently(s, task) == [enqueueTask(s, task, 0) EXCEPT !.waitingThreads = Tail(@)]

\* A waiting thread is woken to find the task in the queue, at priority 0.
recycleWaiting(s, task) ==
  LET t == Head(s.waitingThreads)
  IN  [enqueueTask(s, task, 0) EXCEPT !.waitingThreads = Tail(@), !.woken[t] = TRUE]

\* An expired thread gets the task and is started again; thread->wait() waits
\* under the mutex for its last run to be over.
restartExpired(s, task) ==
  LET t == Head(s.expiredThreads)
  IN  [s EXCEPT !.expiredThreads = Tail(@), !.activeThreads = @ + 1,
                !.runnable[t] = task, !.pc[t] = "start"]

accepts(s) == s.allThreads = {} \/ ~areAllThreadsActive(s)

\* tryStart(task) where it returns true.
tryStart(s, task) ==
  IF s.allThreads # {} /\ s.waitingThreads # <<>> THEN recycleWaiting(s, task)
  ELSE IF s.allThreads # {} /\ s.expiredThreads # <<>> THEN restartExpired(s, task)
  ELSE startThread(s, task)

\* page->pop(), and the page is deleted when that was its last task.
popFirst(s) ==
  IF Len(s.queue[1].tasks) = 1 THEN [s EXCEPT !.queue = Tail(@)]
  ELSE [s EXCEPT !.queue[1].tasks = Tail(@)]

\* Fault: the task that was started is left in the queue.
startFirstKept(s) == tryStart(s, Head(s.queue[1].tasks))

\* One turn of tryToStartMoreThreads.  When tryStart puts the task of a page of
\* negative priority into a new page of priority 0, that page comes first; the
\* task is popped from the page it was in, now the second, but it is the first
\* that is removed when the popped page is finished.
startFirst(s) ==
  LET page == s.queue[1]
      t == tryStart(s, Head(page.tasks))
      i == IF page.priority < 0 /\ Len(t.queue) > Len(s.queue) THEN 2 ELSE 1
      popped == [t EXCEPT !.queue[i].tasks = Tail(@)]
  IN  IF popped.queue[i].tasks = <<>> THEN [popped EXCEPT !.queue = Tail(@)]
      ELSE popped

\* No turn is taken without using up a thread.
tryToStartMoreThreads(s) ==
  LET turns == Cardinality(Thread)
      after[n \in 0..turns] ==
        IF n = 0 THEN s
        ELSE IF after[n - 1].queue # <<>> /\ accepts(after[n - 1])
        THEN startFirst(after[n - 1])
        ELSE after[n - 1]
  IN  after[turns]

\* The last active thread wakes everybody in waitForDone.
registerThreadInactive(s) ==
  [s EXCEPT !.activeThreads = @ - 1,
            !.waiter = [w \in Waiter |->
                          IF s.activeThreads = 1 /\ s.waiter[w] = "wait" THEN "check"
                          ELSE s.waiter[w]]]

-----------------------------------------------------------------------------
\* The public functions.

\* s is the private object after the call.
Submitted(s) ==
  /\ next < MaxTask
  /\ d' = s
  /\ next' = next + 1
  /\ state' = [state EXCEPT ![next + 1] = "started"]
  /\ UNCHANGED <<due, copy>>

startOrQueue(s, priority) ==
  Submitted(IF accepts(s) THEN tryStart(s, next + 1)
            ELSE enqueueTask(s, next + 1, priority))

Start(priority) == startOrQueue(d, priority)

TryStart == accepts(d) /\ Submitted(tryStart(d, next + 1))

StartOnReservedThread ==
  /\ d.reservedThreads > 0
  /\ startOrQueue([d EXCEPT !.reservedThreads = @ - 1], Top)

ReserveThread ==
  /\ d.reservedThreads < Reserve
  /\ d' = [d EXCEPT !.reservedThreads = @ + 1]
  /\ UNCHANGED <<next, state, due, copy>>

\* "Calling this function without previously reserving a thread temporarily
\* increases maxThreadCount()."
ReleaseThread ==
  /\ d.reservedThreads > -Reserve
  /\ d' = tryToStartMoreThreads([d EXCEPT !.reservedThreads = @ - 1])
  /\ UNCHANGED <<next, state, due, copy>>

SetMaxThreadCount(m) ==
  /\ m # d.maxThreads
  /\ d' = tryToStartMoreThreads([d EXCEPT !.maxThreads = m])
  /\ UNCHANGED <<next, state, due, copy>>

\* The tasks have run or are withdrawn.
Done(tasks) ==
  /\ state' = [k \in Task |-> IF k \in tasks THEN "over" ELSE state[k]]
  /\ UNCHANGED <<next, due, copy>>

\* tryTake(task): the page it was taken from goes when it is empty.
TryTake(task) ==
  \E i \in DOMAIN d.queue :
    LET isNot(k) == k # task
        isFull(p) == p.tasks # <<>>
        kept == [d.queue EXCEPT ![i].tasks = SelectSeq(@, isNot)]
    IN  /\ \E j \in DOMAIN d.queue[i].tasks : d.queue[i].tasks[j] = task
        /\ d' = [d EXCEPT !.queue = SelectSeq(kept, isFull)]
        /\ Done({task})

\* clear() takes the last page out of the queue and releases the mutex for each
\* task of it that it deletes; it goes on until the queue is empty.
ClearPage ==
  LET n == Len(d.queue)
      tasks == {d.queue[n].tasks[j] : j \in DOMAIN d.queue[n].tasks}
  IN  /\ n > 0
      /\ d' = [d EXCEPT !.queue = SubSeq(@, 1, n - 1)]
      /\ Done(tasks)

-----------------------------------------------------------------------------
\* BOBUIhreadPoolThread::run()

\* The thread takes the task it was started with and unlocks to run it.
ThreadStart(t) ==
  /\ d.pc[t] = "start"
  /\ d' = [d EXCEPT !.pc[t] = "run"]
  /\ UNCHANGED <<next, state, due, copy>>

\* r->run() returns.
RunTask(t) ==
  /\ d.pc[t] = "run"
  /\ d' = [d EXCEPT !.pc[t] = "relock", !.runnable[t] = NoTask]
  /\ Done({d.runnable[t]})

\* What an active thread does in the critical section that follows: take the
\* next task, or return because the pool has dropped it, or expire because too
\* many threads are active, or wait.
nextTask(s, t) ==
  IF s.queue # <<>> /\ ~tooManyThreadsActive(s)
  THEN [popFirst(s) EXCEPT !.pc[t] = "run", !.runnable[t] = Head(s.queue[1].tasks)]
  ELSE IF t \notin s.allThreads
  THEN [registerThreadInactive(s) EXCEPT !.pc[t] = "finished"]
  ELSE IF tooManyThreadsActive(s)
  THEN [registerThreadInactive(s) EXCEPT !.pc[t] = "finished",
                                         !.expiredThreads = Append(@, t)]
  ELSE [registerThreadInactive(s) EXCEPT !.pc[t] = "wait", !.woken[t] = FALSE,
                                         !.waitingThreads = Append(@, t)]

ThreadRelock(t) ==
  /\ d.pc[t] = "relock"
  /\ d' = nextTask(d, t)
  /\ UNCHANGED <<next, state, due, copy>>

\* Fault: a thread that has timed out stays in the list of waiting threads.
afterWaitListed(r, t) ==
  LET s == [r EXCEPT !.woken[t] = FALSE]
  IN  IF t \notin s.allThreads THEN [s EXCEPT !.pc[t] = "finished"]
      ELSE IF \E i \in DOMAIN s.waitingThreads : s.waitingThreads[i] = t
      THEN [s EXCEPT !.pc[t] = "finished", !.expiredThreads = Append(@, t)]
      ELSE nextTask([s EXCEPT !.activeThreads = @ + 1], t)

\* The wait is over: a thread the pool has dropped returns, one that is still
\* in the list of waiting threads has timed out, another has been woken.
afterWait(r, t) ==
  LET isNot(u) == u # t
      s == [r EXCEPT !.woken[t] = FALSE]
  IN  IF t \notin s.allThreads THEN [s EXCEPT !.pc[t] = "finished"]
      ELSE IF \E i \in DOMAIN s.waitingThreads : s.waitingThreads[i] = t
      THEN [s EXCEPT !.pc[t] = "finished",
                     !.waitingThreads = SelectSeq(@, isNot),
                     !.expiredThreads = Append(@, t)]
      ELSE nextTask([s EXCEPT !.activeThreads = @ + 1], t)

ThreadWake(t) ==
  /\ d.pc[t] = "wait"
  /\ d.woken[t]
  /\ d' = afterWait(d, t)
  /\ UNCHANGED <<next, state, due, copy>>

\* The same after expiryTimeout.
ThreadExpire(t) ==
  /\ d.pc[t] = "wait"
  /\ d' = afterWait(d, t)
  /\ UNCHANGED <<next, state, due, copy>>

-----------------------------------------------------------------------------
\* waitForDone(timer)

WaitForDone(w) ==
  /\ d.waiter[w] = "out"
  /\ d' = [d EXCEPT !.waiter[w] = "check"]
  /\ due' = [due EXCEPT ![w] = 1..next]
  /\ UNCHANGED <<next, state, copy>>

\* The loop of waitForDone is left when the pool is idle: the critical section
\* that follows, of reset(), moves the threads out of the pool.
idle == d.queue = <<>> /\ d.activeThreads = 0

ResetBegin(w) ==
  /\ idle
  /\ copy' = [copy EXCEPT ![w] = d.allThreads]
  /\ d' = [d EXCEPT !.waiter[w] = "reset", !.allThreads = {},
                    !.expiredThreads = <<>>, !.waitingThreads = <<>>]
  /\ UNCHANGED due

WaitCheck(w) ==
  /\ d.waiter[w] = "check"
  /\ \/ ResetBegin(w)
     \/ ~idle /\ d' = [d EXCEPT !.waiter[w] = "wait"] /\ UNCHANGED <<due, copy>>
  /\ UNCHANGED <<next, state>>

\* The timer has expired: false is returned unless the pool is idle.
WaitTimeout(w) ==
  /\ d.waiter[w] \in {"check", "wait"}
  /\ \/ ResetBegin(w)
     \/ /\ ~idle
        /\ d' = [d EXCEPT !.waiter[w] = "out"]
        /\ due' = [due EXCEPT ![w] = {}]
        /\ UNCHANGED copy
  /\ UNCHANGED <<next, state>>

\* reset() visits the threads one after the other (here, in the order of their
\* numbers): a thread that is still running is woken and waited for, and then
\* it is deleted.
Visited(w, t) ==
  /\ d.waiter[w] = "reset"
  /\ t \in copy[w] /\ \A u \in copy[w] : t <= u

ResetWake(w, t) ==
  /\ Visited(w, t)
  /\ d.pc[t] # "finished" /\ ~d.woken[t]
  /\ d' = [d EXCEPT !.woken[t] = TRUE]
  /\ UNCHANGED <<next, state, due, copy>>

ResetDelete(w, t) ==
  /\ Visited(w, t)
  /\ d.pc[t] = "finished"
  /\ copy' = [copy EXCEPT ![w] = @ \ {t}]
  /\ d' = [d EXCEPT !.pc[t] = "none"]
  /\ UNCHANGED <<next, state, due>>

WaitReturn(w) ==
  /\ d.waiter[w] = "reset" /\ copy[w] = {}
  /\ d' = [d EXCEPT !.waiter[w] = "out"]
  /\ due' = [due EXCEPT ![w] = {}]
  /\ UNCHANGED <<next, state, copy>>

-----------------------------------------------------------------------------
PoolThread(t) == ThreadStart(t) \/ RunTask(t) \/ ThreadRelock(t) \/ ThreadWake(t)

WaitStep(w) ==
  \/ WaitCheck(w) \/ WaitReturn(w)
  \/ \E t \in Thread : ResetWake(w, t) \/ ResetDelete(w, t)

Next ==
  \/ \E p \in Priority : Start(p)
  \/ TryStart \/ StartOnReservedThread \/ ReserveThread \/ ReleaseThread
  \/ \E m \in MaxThreads : SetMaxThreadCount(m)
  \/ \E k \in Task : TryTake(k)
  \/ ClearPage
  \/ \E t \in Thread : PoolThread(t) \/ ThreadExpire(t)
  \/ \E w \in Waiter : WaitForDone(w) \/ WaitStep(w) \/ WaitTimeout(w)

Spec == Init /\ [][Next]_vars

\* Tasks return and the threads inside run(), waitForDone() and reset() are
\* scheduled; nothing obliges a wait to time out or anybody to make a call.
Fairness ==
  /\ \A t \in Thread : WF_vars(PoolThread(t))
  /\ \A w \in Waiter : WF_vars(WaitStep(w))

FairSpec == Spec /\ Fairness

-----------------------------------------------------------------------------
\* Properties

\* The counters that steer the pool are derived from four containers and one
\* integer that are changed at different moments: threads that hold a task are
\* counted as active, and between its wakeup and its next critical section a
\* thread is neither waiting nor active.  Every thread is in the lists it should
\* be in, and no others.
listed(q) == {q[i] : i \in DOMAIN q}
inTransit == {t \in d.allThreads : d.pc[t] = "wait"} \ listed(d.waitingThreads)

CountersAgree ==
  LET active == {t \in Thread : d.pc[t] \in {"start", "run", "relock"}}
  IN  /\ PoolTypeOK
      /\ d.activeThreads = Cardinality(active)
      /\ active \subseteq d.allThreads
      /\ Working(d) = Cardinality(active) + Cardinality(inTransit)
      /\ Len(d.waitingThreads) = Cardinality(listed(d.waitingThreads))
      /\ \A t \in listed(d.waitingThreads) : d.pc[t] = "wait"
      /\ listed(d.expiredThreads) = {t \in d.allThreads : d.pc[t] = "finished"}

\* A task that was accepted is either at one place in the queue or in the hands
\* of one thread until it is done, and at neither afterwards: none is lost on
\* its way between queue, recycled and restarted threads, and none runs twice.
\* And waitForDone gets past its wait, to return true, only when every task that
\* was submitted before the call has run or was withdrawn.
places(k) ==
  Cardinality({<<i, j>> \in (1..Len(d.queue)) \X (1..PageSize) :
                 j <= Len(d.queue[i].tasks) /\ d.queue[i].tasks[j] = k})
  + Cardinality({t \in Thread : d.runnable[t] = k})

\* And whatever is queued, reserved, expired or dropped by reset(), a queue with
\* a task in it is never left without a thread that will look at it.
TasksAreKept ==
  /\ \A k \in Task : places(k) = IF state[k] = "started" THEN 1 ELSE 0
  /\ \A w \in Waiter : d.waiter[w] = "reset" => \A k \in due[w] : state[k] # "started"
  /\ d.queue # <<>> => Working(d) >= 1

\* No step makes more threads work than maxThreadCount allows, reserved ones
\* included, except that there may always be one.
WithinLimit ==
  [][Working(d') > Working(d) =>
       Working(d') = 1 \/ activeThreadCount(d') <= ThreadLimit(d')]_d

\* The pool gets done: every task that was accepted is run or withdrawn, and a
\* caller of waitForDone comes back, for the wakeup by the last active thread is
\* not lost.
PoolServes ==
  /\ \A k \in Task : state[k] = "started" ~> state[k] # "started"
  /\ \A w \in Waiter : d.waiter[w] # "out" ~> d.waiter[w] = "out"
=============================================================================
