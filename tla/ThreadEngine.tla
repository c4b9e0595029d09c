---------------------------- MODULE ThreadEngine ----------------------------
(***************************************************************************)
(* mappedReduced() of the concurrent algorithms: the thread engine, the    *)
(* iteration over a sequence and the reduction, concurrent/.               *)
(*                                                                         *)
(* One engine is run by several threads of the pool, which take items,     *)
(* map them, and let one of them reduce; each may start another thread, or *)
(* leave when the future is suspended or the reduction is behind.  The     *)
(* last one to leave finishes the future and deletes the engine.           *)
(***************************************************************************)
EXTENDS Integers, SequencesExt, FiniteSetsExt

CONSTANTS
  Worker,         \* threads of the pool that the engine may get
  iterationCount, \* items of the sequence
  BlockSize,      \* what the block size manager may answer
  StartLimit,     \* ReduceQueueStartLimit * threadCount
  ThrottleLimit,  \* ReduceQueueThrottleLimit * threadCount
  MaxSuspensions  \* bound: calls that suspend

VARIABLES
  forIteration,    \* is the sequence's iterator a random access one?
  ordered,         \* OrderedReduce or UnorderedReduce
  state,           \* flags of the future: "Suspending", "Suspended", "Canceled"
  count,           \* ThreadEngineBarrier::count
  currentIndex,
  iteratorThreads,
  pc,              \* per worker: where it is
  block,           \* per worker: the items it has taken
  progress, resultsMap, resultsMapSize,
  held,            \* per worker: blocks it is reducing
  finished,        \* the engine has finished the future, and is deleted
  suspensions,
  mapped,          \* history: how often each item was mapped
  reduced,         \* history: the items in the order they were reduced
  left             \* history: a thread left to throttle

kernel == <<forIteration, ordered>>
future == <<state, suspensions>>
iteration == <<currentIndex, iteratorThreads, block, mapped>>
reduction == <<progress, resultsMap, resultsMapSize, held, reduced>>
vars == <<kernel, future, count, iteration, pc, reduction, finished, left>>

Items == 0 .. iterationCount - 1

Canceled == "Canceled" \in state
Paused == state \cap {"Suspending", "Suspended"} # {}

Goes(w, at) == pc' = [pc EXCEPT ![w] = at]

-----------------------------------------------------------------------------
\* startAsynchronously gives the engine to the pool.
Init ==
  /\ forIteration \in BOOLEAN /\ ordered \in BOOLEAN
  /\ state = {} /\ suspensions = 0
  /\ count = 1
  /\ LET first == CHOOSE w \in Worker : TRUE IN pc = [v \in Worker |-> IF v = first THEN "queued" ELSE "idle"]
  /\ currentIndex = 0 /\ iteratorThreads = 0
  /\ block = [w \in Worker |-> {}]
  /\ progress = 0 /\ resultsMap = {} /\ resultsMapSize = 0
  /\ held = [w \in Worker |-> {}]
  /\ finished = FALSE
  /\ mapped = [i \in Items |-> 0] /\ reduced = <<>> /\ left = FALSE

\* IterateKernel::shouldThrottleThread and ReduceKernel::shouldThrottle
ShouldThrottle == Paused \/ resultsMapSize > ThrottleLimit

\* MappedReducedKernel::shouldStartThread
ShouldStart ==
  /\ IF forIteration THEN currentIndex < iterationCount /\ ~ShouldThrottle ELSE iteratorThreads = 0
  /\ resultsMapSize <= StartLimit

-----------------------------------------------------------------------------
\* run()
Run(w) ==
  /\ pc[w] = "queued"
  /\ Goes(w, IF Canceled THEN "exit" ELSE "start")
  /\ UNCHANGED <<kernel, future, count, iteration, reduction, finished, left>>

\* shouldStartThread, in startThreads and in the loop over the items ...
Decide(w) ==
  /\ pc[w] \in {"start", "offer"}
  /\ IF ShouldStart THEN Goes(w, IF pc[w] = "start" THEN "mayStart" ELSE "mayOffer")
     ELSE Goes(w, IF pc[w] = "start" THEN "function" ELSE "map")
  /\ UNCHANGED <<kernel, future, count, iteration, reduction, finished, left>>

\* ... and startThreadInternal, by the time others may have taken what is left.
Acquire(w) ==
  /\ pc[w] \in {"mayStart", "mayOffer"}
  /\ IF Canceled
     THEN /\ Goes(w, IF pc[w] = "mayStart" THEN "function" ELSE "map")
          /\ UNCHANGED count
     ELSE /\ count' = count + 1
          /\ Goes(w, IF pc[w] = "mayStart" THEN "tryStart" ELSE "tryOffer")
  /\ UNCHANGED <<kernel, future, iteration, reduction, finished, left>>

\* tryStart: the pool has a thread for the engine, or has not.
Started(w) ==
  \E v \in Worker :
    /\ pc[v] = "idle"
    /\ pc' = [pc EXCEPT ![v] = "queued", ![w] = IF @ = "tryStart" THEN "start" ELSE "map"]
    /\ UNCHANGED count

NotStarted(w) ==
  /\ count' = count - 1
  /\ Goes(w, IF pc[w] = "tryStart" THEN "function" ELSE "map")

TryStart(w) ==
  /\ pc[w] \in {"tryStart", "tryOffer"}
  /\ Started(w) \/ NotStarted(w)
  /\ UNCHANGED <<kernel, future, iteration, reduction, finished, left>>

-----------------------------------------------------------------------------
\* forThreadFunction: a block of items is taken.
ForReserve(w) ==
  /\ forIteration /\ pc[w] = "function"
  /\ IF Canceled \/ currentIndex >= iterationCount
     THEN Goes(w, "exit") /\ UNCHANGED <<currentIndex, block>>
     ELSE \E n \in BlockSize :
            /\ currentIndex' = currentIndex + n
            /\ block' = [block EXCEPT ![w] = (currentIndex .. currentIndex + n - 1) \cap Items]
            /\ Goes(w, "resume")
  /\ UNCHANGED <<kernel, future, count, iteratorThreads, mapped, reduction, finished, left>>

\* whileThreadFunction: one thread at a time has the iterator.
WhileEnter(w) ==
  /\ ~forIteration /\ pc[w] = "function"
  /\ iteratorThreads' = 1
  /\ Goes(w, IF iteratorThreads = 0 THEN "iterate" ELSE "exit")
  /\ UNCHANGED <<kernel, future, count, currentIndex, block, mapped, reduction, finished, left>>

Iterate(w) ==
  /\ pc[w] = "iterate"
  /\ IF currentIndex = iterationCount
     THEN Goes(w, "exit") /\ UNCHANGED <<currentIndex, iteratorThreads, block>>
     ELSE /\ block' = [block EXCEPT ![w] = {currentIndex}]
          /\ currentIndex' = currentIndex + 1
          /\ iteratorThreads' = 0
          /\ Goes(w, "resume")
  /\ UNCHANGED <<kernel, future, count, mapped, reduction, finished, left>>

\* QFutureInterfaceBase::waitForResume
WaitForResume(w) ==
  /\ pc[w] = "resume"
  /\ Goes(w, IF Paused /\ ~Canceled THEN "asleep" ELSE "offer")
  /\ UNCHANGED <<kernel, future, count, iteration, reduction, finished, left>>

\* The user's function is called on each item of the block; it may throw, which
\* cancels the future and loses the block.
Map(w) ==
  /\ pc[w] = "map"
  /\ mapped' = [i \in Items |-> mapped[i] + IF i \in block[w] THEN 1 ELSE 0]
  /\ Goes(w, "reduce")
  /\ UNCHANGED <<kernel, future, count, currentIndex, iteratorThreads, block, reduction, finished, left>>

MapThrows(w) ==
  /\ pc[w] = "map"
  /\ state' = state \cup {"Canceled"}
  /\ pc' = [v \in Worker |-> IF v = w THEN "exit" ELSE IF pc[v] = "asleep" THEN "offer" ELSE pc[v]]
  /\ block' = [block EXCEPT ![w] = {}]
  /\ UNCHANGED <<kernel, suspensions, count, currentIndex, iteratorThreads, mapped, reduction, finished, left>>

-----------------------------------------------------------------------------
\* ReduceKernel.  A block stands for its results and is known by its first item.
Begin(b) == Min(b)

\* Fault: an unordered reduction does not see that another thread reduces.
CanReduceAnyway(b) == ordered => progress = Begin(b)

CanReduce(b) == progress = IF ordered THEN Begin(b) ELSE 0

\* runReduce: the thread that can reduce does so without the mutex, the others
\* leave their blocks to it.
RunReduce(w) ==
  /\ pc[w] = "reduce"
  /\ IF CanReduce(block[w])
     THEN /\ held' = [held EXCEPT ![w] = {block[w]}]
          /\ progress' = IF ordered THEN progress ELSE -1
          /\ Goes(w, "reducing")
          /\ UNCHANGED <<resultsMap, resultsMapSize>>
     ELSE /\ resultsMap' = resultsMap \cup {block[w]}
          /\ resultsMapSize' = resultsMapSize + 1
          /\ Goes(w, "throttle")
          /\ UNCHANGED <<progress, held>>
  /\ UNCHANGED <<kernel, future, count, iteration, reduced, finished, left>>

InOrder(blocks) == SetToSortSeq(UNION blocks, <)

\* Holds the next blocks to reduce, or is done.
Takes(w, blocks) ==
  /\ held' = [held EXCEPT ![w] = blocks]
  /\ Goes(w, IF blocks = {} THEN "throttle" ELSE "reducing")

\* The mutex is locked again: as many blocks as possible are reduced, in order;
\* each stays in the map until it has been.
ReducedOrdered(w) ==
  LET b == CHOOSE c \in held[w] : TRUE
      rest == resultsMap \ held[w]
  IN  /\ ordered /\ pc[w] = "reducing"
      /\ reduced' = reduced \o InOrder(held[w])
      /\ progress' = progress + Cardinality(b)
      /\ resultsMap' = rest
      /\ resultsMapSize' = IF b \in resultsMap THEN resultsMapSize - 1 ELSE resultsMapSize
      /\ Takes(w, {c \in rest : Begin(c) = progress'})
      /\ UNCHANGED <<kernel, future, count, iteration, finished, left>>

\* All stored blocks are taken out of the map; they count until they are reduced.
ReducedUnordered(w) ==
  /\ ~ordered /\ pc[w] = "reducing"
  /\ reduced' = reduced \o InOrder(held[w])
  /\ resultsMapSize' = resultsMapSize - IF block[w] \in held[w] THEN 0 ELSE Cardinality(held[w])
  /\ resultsMap' = {}
  /\ progress' = IF resultsMap = {} THEN 0 ELSE -1
  /\ Takes(w, resultsMap)
  /\ UNCHANGED <<kernel, future, count, iteration, finished, left>>

-----------------------------------------------------------------------------
\* The thread goes on, or wants to leave.
Throttle(w) ==
  /\ pc[w] = "throttle"
  /\ Goes(w, IF ShouldThrottle THEN "throttled" ELSE "function")
  /\ block' = [block EXCEPT ![w] = {}]
  /\ UNCHANGED <<kernel, future, count, currentIndex, iteratorThreads, mapped, reduction, finished, left>>

\* Fault: the last thread leaves, too.
ThrottleExitAlways(w) ==
  /\ pc[w] = "throttled"
  /\ count' = count - 1 /\ left' = TRUE
  /\ Goes(w, "idle")
  /\ UNCHANGED <<kernel, future, iteration, reduction, finished>>

\* releaseUnlessLast; the last thread reports that the future is suspended and
\* goes on.
ThrottleExit(w) ==
  /\ pc[w] = "throttled"
  /\ IF count = 1
     THEN /\ state' = IF {"Suspending", "Suspended"} \cap state = {"Suspending"}
                      THEN (state \ {"Suspending"}) \cup {"Suspended"} ELSE state
          /\ Goes(w, "function")
          /\ UNCHANGED <<count, left>>
     ELSE /\ count' = count - 1 /\ left' = TRUE
          /\ Goes(w, "idle")
          /\ UNCHANGED state
  /\ UNCHANGED <<kernel, suspensions, iteration, reduction, finished>>

\* threadExit
Exit(w) ==
  /\ pc[w] = "exit"
  /\ count' = count - 1
  /\ Goes(w, IF count = 1 THEN "finish" ELSE "idle")
  /\ UNCHANGED <<kernel, future, iteration, reduction, finished, left>>

\* asynchronousFinish: what is left in the map is reduced.
Finish(w) ==
  /\ pc[w] = "finish"
  /\ reduced' = reduced \o InOrder(resultsMap)
  /\ finished' = TRUE
  /\ Goes(w, "idle")
  /\ UNCHANGED <<kernel, future, count, iteration, progress, resultsMap, resultsMapSize, held, left>>

-----------------------------------------------------------------------------
\* Calls on the future.
WakePaused == pc' = [w \in Worker |-> IF pc[w] = "asleep" THEN "offer" ELSE pc[w]]

Suspend ==
  /\ ~finished /\ suspensions < MaxSuspensions
  /\ state' = state \cup {"Suspending"} /\ suspensions' = suspensions + 1
  /\ UNCHANGED <<kernel, count, iteration, pc, reduction, finished, left>>

Resume ==
  /\ ~finished /\ Paused
  /\ state' = state \ {"Suspending", "Suspended"}
  /\ WakePaused
  /\ UNCHANGED <<kernel, suspensions, count, iteration, reduction, finished, left>>

Cancel ==
  /\ ~finished /\ ~Canceled
  /\ state' = {"Canceled"}
  /\ WakePaused
  /\ UNCHANGED <<kernel, suspensions, count, iteration, reduction, finished, left>>

Work(w) ==
  \/ Run(w) \/ Decide(w) \/ Acquire(w) \/ TryStart(w)
  \/ ForReserve(w) \/ WhileEnter(w) \/ Iterate(w) \/ WaitForResume(w) \/ Map(w) \/ MapThrows(w)
  \/ RunReduce(w) \/ ReducedOrdered(w) \/ ReducedUnordered(w)
  \/ Throttle(w) \/ ThrottleExit(w) \/ Exit(w) \/ Finish(w)

Next == Suspend \/ Resume \/ Cancel \/ \E w \in Worker : Work(w)

\* The pool's threads run, the user's functions return, and who suspends a
\* future resumes it.
Fairness == WF_vars(Resume) /\ \A w \in Worker : WF_vars(Work(w))

FairSpec == Init /\ [][Next]_vars /\ Fairness

-----------------------------------------------------------------------------
Inside == {w \in Worker : pc[w] \notin {"idle", "finish"}}
Starting == {w \in Worker : pc[w] \in {"tryStart", "tryOffer"}}

\* The barrier counts the threads that have been given to the pool, and those
\* about to be: so whoever finishes the future is the last one, and nobody is
\* left in the engine when it is deleted.
LastOneFinishes ==
  /\ count = Cardinality(Inside) + Cardinality(Starting)
  /\ finished \/ (\E w \in Worker : pc[w] = "finish") => Inside = {}

\* One thread reduces at a time; each item at most once, in the order of the
\* sequence if that was asked for; and when the future finishes, nothing that
\* was mapped is missing.
ReductionIsSerial ==
  /\ Cardinality({w \in Worker : pc[w] = "reducing"}) <= 1
  /\ IsInjective(reduced)
  /\ ordered => \A i, k \in DOMAIN reduced : i < k => reduced[i] < reduced[k]
  /\ \A i \in Items : mapped[i] <= 1
  /\ finished => ToSet(reduced) = {i \in Items : mapped[i] = 1}

\* mappedReduced() computes what it says, over whatever threads come and leave:
\* "Calls mapFunction once for each item in sequence" (bobuiconcurrentmap.cpp:432).
\* A sequence without random access is excepted once a thread has left to
\* throttle: the code then can finish with items not taken, for a thread that
\* finds the iterator in use is done, and the one that uses it may leave before
\* the first has left.  What is reported as suspended calls no function.
ComputationIsExact ==
  /\ LastOneFinishes /\ ReductionIsSerial
  /\ finished /\ ~Canceled /\ (forIteration \/ ~left) => \A i \in Items : mapped[i] = 1
  /\ "Suspended" \in state /\ ~Canceled =>
       \A w \in Worker : pc[w] \notin {"offer", "mayOffer", "tryOffer", "map", "reduce", "reducing"}

\* A computation finishes, however often it is suspended and resumed and its
\* threads are sent away.
EngineFinishes == <>finished
=============================================================================
