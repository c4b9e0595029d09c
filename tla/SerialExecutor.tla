--------------------------- MODULE SerialExecutor ---------------------------
(***************************************************************************)
(* What an event loop promises to the goroutines that post to it: tasks    *)
(* are numbered as they are submitted and executed one after the other, in *)
(* that order, each exactly once.  Nothing is said of how tasks are        *)
(* buffered, of wakeups or of the thread that executes them.               *)
(***************************************************************************)
EXTENDS Naturals, Sequences

CONSTANT MaxPost  \* bound: number of tasks submitted in a behaviour

VARIABLES
  pending,  \* submitted tasks that have not finished, oldest first
  done      \* finished tasks, in the order they finished

vars == <<pending, done>>

Init == pending = <<>> /\ done = <<>>

Submit ==
  LET next == Len(done) + Len(pending) + 1
  IN  /\ next <= MaxPost
      /\ pending' = Append(pending, next)
      /\ UNCHANGED done

Execute ==
  /\ pending # <<>>
  /\ done' = Append(done, Head(pending))
  /\ pending' = Tail(pending)

Next == Submit \/ Execute

Spec == Init /\ [][Next]_vars
=============================================================================
