----------------------------- MODULE FutureChain -----------------------------
(***************************************************************************)
(* A chain of futures made by then() and onCanceled(): the continuation    *)
(* protocol of QFutureInterfaceBase (qfutureinterface.cpp) with the        *)
(* handlers of qfuture_impl.h that it runs.                                *)
(*                                                                         *)
(* Future 0 is a computation's own; future k is what attaching to k - 1    *)
(* returned.  A thread builds the chain while the computation finishes and *)
(* callers cancel.  Each future has two mutexes, m_mutex and               *)
(* continuationMutex.  A critical section is a step, except in the two     *)
(* functions that take a mutex while they hold another, cancelImpl and     *)
(* cancelChain: there every mutex taken is a step, and "locked" says which *)
(* are held in between.  Continuations are launched in the thread that     *)
(* finishes their parent (Launch::Sync).                                   *)
(***************************************************************************)
EXTENDS Integers, FiniteSets

CONSTANTS
  Depth,   \* the last future of the chain
  Caller,  \* threads that cancel, each of them once
  Ways     \* what they call: "cancel" or "cancelChain"

Future == 0..Depth
None == -1

VARIABLES
  canceled,  \* futures with the flag Canceled
  finished,  \* futures with the flag Finished
  stored,    \* those with a continuation function
  data,      \* those whose continuationData is the next future
  parent,    \* those whose nonConcludedParent is the one before
  executed,  \* those with continuationExecuted
  mark,      \* continuationState
  kind,      \* continuationType
  pc,        \* where the computation or the continuation of a future stands
  attach,    \* where the thread that builds the chain stands
  call,      \* where cancelling stands, of a caller or a continuation
  locked,    \* mutexes held between steps: "m" or "c" of a future
  launched,  \* history: how often a continuation was launched
  ran,       \* history: continuations whose function was called
  stopped    \* history: continuations that must not be called any more

links == <<stored, data, parent, executed, mark, kind>>
flags == <<canceled, finished>>
vars == <<flags, links, pc, attach, call, locked, launched, ran, stopped>>

Actor == Caller \cup Future
Idle == [at |-> "out", way |-> "cancel", of |-> None, cur |-> None, span |-> {}]

Init ==
  /\ canceled = {} /\ finished = {} /\ stored = {} /\ data = {} /\ parent = {} /\ executed = {}
  /\ mark = [f \in Future |-> "Default"] /\ kind = [f \in Future |-> "Unknown"]
  /\ pc = [f \in Future |-> IF f = 0 THEN "running" ELSE "none"]
  /\ attach = [next |-> 1, at |-> "out"]
  /\ call = [a \in Actor |-> Idle]
  /\ locked = {} /\ launched = [f \in Future |-> 0] /\ ran = {} /\ stopped = {}

Free(lock, f) == <<lock, f>> \notin locked
Child(f) == IF f \in data THEN f + 1 ELSE None
Parent(f) == IF f \in parent THEN f - 1 ELSE None

Launch(f) ==
  /\ pc' = [pc EXCEPT ![f] = "execute"]
  /\ launched' = [launched EXCEPT ![f] = @ + 1]

-----------------------------------------------------------------------------
\* setContinuation, second half: keep the function, link the two futures.
Link(f) ==
  IF mark[f] = "Cleaned" THEN UNCHANGED <<stored, data, parent>>
  ELSE stored' = stored \cup {f} /\ data' = data \cup {f} /\ parent' = parent \cup {f + 1}

Attached == attach' = [next |-> attach.next + 1, at |-> "out"]

\* then() and onCanceled(): setContinuation runs the continuation at once if
\* the future is finished, and keeps it afterwards.
Attach(type) ==
  LET f == attach.next - 1
  IN /\ attach.at = "out" /\ attach.next <= Depth /\ Free("c", f)
     /\ kind' = [kind EXCEPT ![f + 1] = type]
     /\ IF f \in finished
        THEN /\ executed' = executed \cup {f}
             /\ Launch(f + 1)
             /\ attach' = [attach EXCEPT !.at = "inline"]
             /\ UNCHANGED <<stored, data, parent>>
        ELSE Link(f) /\ Attached /\ UNCHANGED <<pc, launched, executed>>
     /\ UNCHANGED <<flags, mark, call, locked, ran, stopped>>

AttachReturns ==
  LET f == attach.next - 1
  IN /\ attach.at = "inline" /\ pc[f + 1] = "done" /\ Free("c", f)
     /\ Link(f) /\ Attached
     /\ UNCHANGED <<executed, mark, kind, flags, pc, call, locked, launched, ran, stopped>>

-----------------------------------------------------------------------------
\* Fault: only the flag of the future itself is looked at.
IsCanceledItself(f) == f \in canceled

\* isChainCanceled()
IsChainCanceled(f) == f \in canceled \/ mark[f] = "Canceled"

\* CompactContinuation::execute and CanceledHandler::run.  A continuation that
\* is skipped cancels its own future; a handler that is not needed passes the
\* parent's result on.
Execute(f) ==
  LET skips == kind[f] = "Then" /\ IsChainCanceled(f - 1)
  IN /\ pc[f] = "execute"
     /\ pc' = [pc EXCEPT ![f] = IF skips THEN "cancel" ELSE "running"]
     /\ call' = IF skips THEN [call EXCEPT ![f] = [Idle EXCEPT !.at = "flag", !.of = f]] ELSE call
     /\ ran' = IF (kind[f] = "Then" /\ ~skips) \/ (kind[f] = "OnCanceled" /\ f - 1 \in canceled)
               THEN ran \cup {f} ELSE ran
     /\ UNCHANGED <<flags, links, attach, locked, launched, stopped>>

\* reportFinished(), when the function has returned
Finish(f) ==
  /\ pc[f] = "running" \/ (pc[f] = "cancel" /\ call[f].at = "out")
  /\ Free("m", f)
  /\ finished' = finished \cup {f}
  /\ pc' = [pc EXCEPT ![f] = "continue"]
  /\ UNCHANGED <<canceled, links, attach, call, locked, launched, ran, stopped>>

IsDue(f) == f \in stored \ executed

\* runContinuation(): the function is taken out and called without the mutex.
RunContinuation(f) ==
  /\ pc[f] = "continue" /\ Free("c", f) /\ IsDue(f)
  /\ parent' = parent \ {Child(f)}
  /\ executed' = executed \cup {f} /\ stored' = stored \ {f}
  /\ pc' = [pc EXCEPT ![f] = "calling", ![f + 1] = "execute"]
  /\ launched' = [launched EXCEPT ![f + 1] = @ + 1]
  /\ UNCHANGED <<data, mark, kind, flags, attach, call, locked, ran, stopped>>

NoContinuation(f) ==
  /\ pc[f] = "continue" /\ Free("c", f) /\ ~IsDue(f)
  /\ pc' = [pc EXCEPT ![f] = "clean"]
  /\ UNCHANGED <<flags, links, attach, call, locked, launched, ran, stopped>>

Restore(f) ==
  /\ pc[f] = "calling" /\ pc[f + 1] = "done" /\ Free("c", f)
  /\ stored' = IF mark[f] = "Cleaned" THEN stored ELSE stored \cup {f}
  /\ pc' = [pc EXCEPT ![f] = "clean"]
  /\ UNCHANGED <<data, parent, executed, mark, kind, flags, attach, call, locked, launched, ran, stopped>>

\* ~QPromise of a finished future: cleanContinuation()
Clean(f) ==
  /\ pc[f] = "clean" /\ Free("c", f)
  /\ stored' = stored \ {f} /\ data' = data \ {f}
  /\ mark' = [mark EXCEPT ![f] = "Cleaned"]
  /\ pc' = [pc EXCEPT ![f] = "done"]
  /\ UNCHANGED <<parent, executed, kind, flags, attach, call, locked, launched, ran, stopped>>

-----------------------------------------------------------------------------
\* The continuations that a call on f is to stop: those attached with then()
\* that follow f directly, and for cancelChain those before it as well.
Span(way, f) ==
  {j \in 1..attach.next - 1 : kind[j] = "Then" /\
     \/ way = "cancelChain" /\ j <= f
     \/ j > f /\ \A i \in f + 1..j : kind[i] = "Then"}

Call(a, way, f) ==
  /\ call[a].of = None /\ f < attach.next
  /\ call' = [call EXCEPT ![a] =
       [at |-> IF way = "cancel" THEN "flag" ELSE "chain", way |-> way, of |-> f,
        cur |-> None, span |-> Span(way, f)]]
  /\ UNCHANGED <<flags, links, pc, attach, locked, launched, ran, stopped>>

At(a, place) == call[a].at = place
Goes(a, place, cur) == call' = [call EXCEPT ![a].at = place, ![a].cur = cur]

\* What has not been launched when the call returns is stopped.  A call that
\* finds the flag set has not looked at the continuations behind the next: the
\* cancelChain() that set it may still be on its way to them.
Returns(a, seen) ==
  /\ Goes(a, "out", None)
  /\ stopped' = stopped \cup {j \in call[a].span \cap seen : pc[j] = "none"}

\* cancelImpl with m_mutex of the future, which it keeps
Flag(a) ==
  LET f == call[a].of
  IN /\ At(a, "flag") /\ Free("m", f)
     /\ canceled' = canceled \cup {f}
     /\ IF f \in canceled THEN Returns(a, 0..f + 1) /\ UNCHANGED locked
        ELSE Goes(a, "walk", None) /\ locked' = locked \cup {<<"m", f>>} /\ UNCHANGED stopped
     /\ UNCHANGED <<finished, links, pc, attach, launched, ran>>

Walk(a) ==
  LET f == call[a].of
  IN /\ At(a, "walk") /\ Free("c", f)
     /\ locked' = locked \cup {<<"c", f>>}
     /\ Goes(a, "mark", Child(f))
     /\ UNCHANGED <<flags, links, pc, attach, launched, ran, stopped>>

Mark(a) ==
  LET f == call[a].cur
      then == kind[f] = "Then"
  IN /\ At(a, "mark") /\ f # None /\ Free("c", f)
     /\ mark' = IF then THEN [mark EXCEPT ![f] = "Canceled"] ELSE mark
     /\ Goes(a, "mark", IF then THEN Child(f) ELSE None)
     /\ UNCHANGED <<stored, data, parent, executed, kind, flags, pc, attach, locked, launched, ran, stopped>>

Unlock(f) == locked' = locked \ {<<"m", f>>, <<"c", f>>}

Cancelled(a) ==
  /\ At(a, "mark") /\ call[a].cur = None
  /\ Unlock(call[a].of) /\ Returns(a, Future)
  /\ UNCHANGED <<flags, links, pc, attach, launched, ran>>

\* cancelChain: with continuationMutex of the future it goes up.
Chain(a) ==
  LET f == call[a].of
  IN /\ At(a, "chain") /\ Free("c", f)
     /\ locked' = locked \cup {<<"c", f>>}
     /\ Goes(a, "up", Parent(f))
     /\ UNCHANGED <<flags, links, pc, attach, launched, ran, stopped>>

CancelParent(a) ==
  /\ At(a, "up") /\ call[a].cur # None /\ Free("m", call[a].cur)
  /\ canceled' = canceled \cup {call[a].cur}
  /\ Goes(a, "upper", call[a].cur)
  /\ UNCHANGED <<finished, links, pc, attach, locked, launched, ran, stopped>>

Up(a) ==
  /\ At(a, "upper") /\ Free("c", call[a].cur)
  /\ Goes(a, "up", Parent(call[a].cur))
  /\ UNCHANGED <<flags, links, pc, attach, locked, launched, ran, stopped>>

Top(a) ==
  /\ At(a, "up") /\ call[a].cur = None
  /\ locked' = locked \ {<<"c", call[a].of>>}
  /\ Goes(a, "flag", None)
  /\ UNCHANGED <<flags, links, pc, attach, launched, ran, stopped>>

-----------------------------------------------------------------------------
Conclude(f) ==
  \/ Finish(f)
  \/ NoContinuation(f) \/ RunContinuation(f) \/ Restore(f) \/ Clean(f)

Cancel(a) ==
  \/ Flag(a) \/ Walk(a) \/ Mark(a) \/ Cancelled(a)
  \/ Chain(a) \/ CancelParent(a) \/ Up(a) \/ Top(a)

Next ==
  \/ \E type \in {"Then", "OnCanceled"} : Attach(type)
  \/ AttachReturns
  \/ \E f \in Future : Execute(f) \/ Conclude(f)
  \/ \E a \in Caller, way \in Ways, f \in Future : Call(a, way, f)
  \/ \E a \in Actor : Cancel(a)

Spec == Init /\ [][Next]_vars

\* Every function returns, and threads run.
Fairness ==
  /\ WF_vars(AttachReturns)
  /\ \A f \in Future : WF_vars(Execute(f)) /\ WF_vars(Conclude(f))
  /\ \A a \in Actor : WF_vars(Cancel(a))

FairSpec == Spec /\ Fairness

-----------------------------------------------------------------------------
\* A continuation is launched once, by the thread that attaches it or by the
\* one that finishes its parent, whichever way they meet, and after the parent
\* has finished.
LaunchedOnce ==
  \A f \in Future \ {0} : /\ launched[f] <= 1
                          /\ launched[f] = 1 => f - 1 \in finished

\* And what was attached with then() and not launched when the cancel() or
\* cancelChain() that set the flag returned is never called, nor is what follows
\* a future directly after any of them, while a cancellation handler is called
\* exactly for a parent that was cancelled by the time it runs.
ChainIsSound ==
  /\ LaunchedOnce
  /\ stopped \cap ran = {}
  /\ \A f \in ran : kind[f] = "OnCanceled" => f - 1 \in canceled

\* Every continuation that was attached finishes, called or skipped.
ChainCompletes ==
  \A f \in Future \ {0} : kind[f] # "Unknown" ~> f \in finished

\* cancel() and cancelChain() return.
CancelReturns ==
  \A a \in Caller : call[a].at # "out" ~> call[a].at = "out"
=============================================================================
