---------------------------- MODULE MCThreadPool ----------------------------
(* Small instances of the thread pool, and of the thread engine that the     *)
(* concurrent algorithms run on it: of the pool the engine sees only whether *)
(* it has a thread, so they share no state, and every behaviour is one of    *)
(* its "subject".                                                            *)
EXTENDS ThreadPool

CONSTANTS v1, v2

VARIABLES
  subject,
  forIteration, ordered, flags, count, currentIndex, iteratorThreads, pc, block,
  progress, resultsMap, resultsMapSize, held, finished, suspensions, mapped, reduced, left

\* Two threads, three items, and a reduction that is behind with two blocks.
E == INSTANCE ThreadEngine WITH
  Worker <- {v1, v2}, iterationCount <- 3, BlockSize <- {1, 2}, StartLimit <- 0,
  ThrottleLimit <- 1, MaxSuspensions <- 1, state <- flags

engine ==
  <<forIteration, ordered, flags, count, currentIndex, iteratorThreads, pc, block,
    progress, resultsMap, resultsMapSize, held, finished, suspensions, mapped, reduced, left>>

MCThread == 1..6
MCPriority == {0, 1}
MCLimits == {1, 2}

AnyInit ==
  /\ subject \in {"pool", "engine"}
  /\ Init /\ E!Init
  /\ subject = "pool" => forIteration /\ ordered

AnyNext ==
  /\ UNCHANGED subject
  /\ \/ subject = "pool" /\ Next /\ UNCHANGED engine
     \/ subject = "engine" /\ E!Next /\ UNCHANGED vars
     \/ subject = "engine" /\ UNCHANGED <<vars, engine>>  \* not a deadlock, see EngineFinishes

AnyFairSpec ==
  /\ AnyInit /\ [][AnyNext]_<<subject, vars, engine>>
  /\ Fairness
  /\ LET runs(A) == subject = "engine" /\ A
     IN  /\ WF_engine(runs(E!Resume))
         /\ \A w \in {v1, v2} : WF_engine(runs(E!Work(w)))

\* mappedReduced() loses and repeats nothing (bobuiconcurrentthreadengine.cpp,
\* bobuiconcurrentiteratekernel.h, bobuiconcurrentreducekernel.h).
ComputationIsExact == E!ComputationIsExact

\* A computation that was started finishes (bobuiconcurrentthreadengine.cpp).
EngineFinishes == subject = "engine" => E!EngineFinishes
=============================================================================
