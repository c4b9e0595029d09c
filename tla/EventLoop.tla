------------------------------ MODULE EventLoop ------------------------------
(***************************************************************************)
(* The unified event loop of the Go kernel, internal/ui/event_loop.go.     *)
(*                                                                         *)
(* Any goroutine calls Post; goroutines in Runner call Run; Stop may be    *)
(* called by anyone at any time.  Each critical section of el.mu is one    *)
(* step, and so is each channel operation: the append and the wakeup of a  *)
(* Post, and the receive and the queue swap of a Run, are separate steps   *)
(* that other goroutines interleave with.                                  *)
(*                                                                         *)
(* A task is the number of the Post that queued it, counted in the order   *)
(* in which the critical sections of Post are entered.                     *)
(***************************************************************************)
EXTENDS Naturals, Sequences

CONSTANTS
  Poster,    \* goroutines that post tasks from outside the loop
  Runner,    \* goroutines that call Run
  NoRunner,  \* el.quit before the first Run: no Run has made it
  MaxPost    \* bound: number of Posts in a behaviour

ASSUME EventLoopAssumption ==
  /\ Poster \cap Runner = {}
  /\ NoRunner \notin Runner
  /\ MaxPost \in Nat

VARIABLES
  queue,     \* el.queue
  wakeup,    \* is there a token in el.wakeup, a channel of capacity 1?
  running,   \* el.running
  owner,     \* whose Run made the channel el.quit points to
  quitOpen,  \* quitOpen[r]: the quit channel of r's Run is not closed
  pc,        \* where each runner stands in Run
  batch,     \* batch[r]: the tasks r took from the queue and has not finished
  sending,   \* goroutines inside Post, between the append and the wakeup
  posted,    \* number of tasks posted so far
  done       \* history: finished tasks, in the order they finished

loopVars == <<running, owner, quitOpen>>
vars == <<queue, wakeup, running, owner, quitOpen, pc, batch, sending, posted, done>>

Goroutine == Poster \cup Runner
Task == 1..MaxPost
RunPC == {"idle", "select", "drain", "batch", "task"}

TypeOK ==
  /\ queue \in Seq(Task)
  /\ wakeup \in BOOLEAN
  /\ running \in BOOLEAN
  /\ owner \in Runner \cup {NoRunner}
  /\ quitOpen \in [Runner -> BOOLEAN]
  /\ pc \in [Runner -> RunPC]
  /\ batch \in [Runner -> Seq(Task)]
  /\ sending \in SUBSET Goroutine
  /\ posted \in 0..MaxPost
  /\ done \in Seq(Task)

\* GetEventLoop: an empty queue, a wakeup channel of capacity 1, nothing running.
Init ==
  /\ queue = <<>>
  /\ wakeup = FALSE
  /\ running = FALSE
  /\ owner = NoRunner
  /\ quitOpen = [r \in Runner |-> FALSE]
  /\ pc = [r \in Runner |-> "idle"]
  /\ batch = [r \in Runner |-> <<>>]
  /\ sending = {}
  /\ posted = 0
  /\ done = <<>>

-----------------------------------------------------------------------------
\* Post(task)

\* A runner posts only from inside a task it is executing; no goroutine is in
\* two Posts at once.
MayPost(g) ==
  /\ g \notin sending
  /\ g \in Runner => pc[g] = "task"

\* Fault: the newest task goes to the front of the queue.
PostInFront(g) ==
  /\ MayPost(g)
  /\ posted < MaxPost
  /\ posted' = posted + 1
  /\ queue' = <<posted + 1>> \o queue
  /\ sending' = sending \cup {g}
  /\ UNCHANGED <<wakeup, loopVars, pc, batch, done>>

\* el.mu.Lock(); append; el.mu.Unlock()
PostAppend(g) ==
  /\ MayPost(g)
  /\ posted < MaxPost
  /\ posted' = posted + 1
  /\ queue' = Append(queue, posted + 1)
  /\ sending' = sending \cup {g}
  /\ UNCHANGED <<wakeup, loopVars, pc, batch, done>>

\* Fault: only the Post that finds its task alone in the queue wakes the loop.
PostWakeupIfFirst(g) ==
  /\ g \in sending
  /\ wakeup' = (wakeup \/ Len(queue) = 1)
  /\ sending' = sending \ {g}
  /\ UNCHANGED <<queue, loopVars, pc, batch, posted, done>>

\* The non-blocking send: when the channel is full the default case drops it.
PostWakeup(g) ==
  /\ g \in sending
  /\ wakeup' = TRUE
  /\ sending' = sending \ {g}
  /\ UNCHANGED <<queue, loopVars, pc, batch, posted, done>>

-----------------------------------------------------------------------------
\* Run()

\* Fault: Run does not look at el.running.
RunEnterAgain(r) ==
  /\ pc[r] = "idle"
  /\ running' = TRUE
  /\ owner' = r
  /\ quitOpen' = [quitOpen EXCEPT ![r] = TRUE]
  /\ pc' = [pc EXCEPT ![r] = "select"]
  /\ UNCHANGED <<queue, wakeup, batch, sending, posted, done>>

\* The prologue under el.mu: a second Run returns at once, leaving r idle.
RunEnter(r) ==
  /\ pc[r] = "idle"
  /\ ~running
  /\ running' = TRUE
  /\ owner' = r
  /\ quitOpen' = [quitOpen EXCEPT ![r] = TRUE]
  /\ pc' = [pc EXCEPT ![r] = "select"]
  /\ UNCHANGED <<queue, wakeup, batch, sending, posted, done>>

\* case <-quit
RunQuit(r) ==
  /\ pc[r] = "select"
  /\ ~quitOpen[r]
  /\ pc' = [pc EXCEPT ![r] = "idle"]
  /\ UNCHANGED <<queue, wakeup, loopVars, batch, sending, posted, done>>

\* case <-el.wakeup
RunReceive(r) ==
  /\ pc[r] = "select"
  /\ wakeup
  /\ wakeup' = FALSE
  /\ pc' = [pc EXCEPT ![r] = "drain"]
  /\ UNCHANGED <<queue, loopVars, batch, sending, posted, done>>

\* Fault: the batch is taken but the queue is not replaced.
RunDrainKeep(r) ==
  /\ pc[r] = "drain"
  /\ batch' = [batch EXCEPT ![r] = queue]
  /\ pc' = [pc EXCEPT ![r] = "batch"]
  /\ UNCHANGED <<queue, wakeup, loopVars, sending, posted, done>>

\* The queue swap under el.mu.
RunDrain(r) ==
  /\ pc[r] = "drain"
  /\ batch' = [batch EXCEPT ![r] = queue]
  /\ queue' = <<>>
  /\ pc' = [pc EXCEPT ![r] = "batch"]
  /\ UNCHANGED <<wakeup, loopVars, sending, posted, done>>

\* for _, task := range tasks: start the next task ...
TaskBegin(r) ==
  /\ pc[r] = "batch"
  /\ batch[r] # <<>>
  /\ pc' = [pc EXCEPT ![r] = "task"]
  /\ UNCHANGED <<queue, wakeup, loopVars, batch, sending, posted, done>>

\* ... and return from it, once a Post it makes has returned.
TaskEnd(r) ==
  /\ pc[r] = "task"
  /\ r \notin sending
  /\ done' = Append(done, Head(batch[r]))
  /\ batch' = [batch EXCEPT ![r] = Tail(@)]
  /\ pc' = [pc EXCEPT ![r] = "batch"]
  /\ UNCHANGED <<queue, wakeup, loopVars, sending, posted>>

\* Fault: the loop goes on to the next batch without looking at quit.
BatchEndDrain(r) ==
  /\ pc[r] = "batch"
  /\ batch[r] = <<>>
  /\ pc' = [pc EXCEPT ![r] = "drain"]
  /\ UNCHANGED <<queue, wakeup, loopVars, batch, sending, posted, done>>

\* The range loop is over: back to the select.
BatchEnd(r) ==
  /\ pc[r] = "batch"
  /\ batch[r] = <<>>
  /\ pc' = [pc EXCEPT ![r] = "select"]
  /\ UNCHANGED <<queue, wakeup, loopVars, batch, sending, posted, done>>

-----------------------------------------------------------------------------
\* Stop(): one critical section of el.mu; it does not wait for Run to return.
Stop ==
  /\ running
  /\ running' = FALSE
  /\ quitOpen' = [quitOpen EXCEPT ![owner] = FALSE]
  /\ UNCHANGED <<queue, wakeup, owner, pc, batch, sending, posted, done>>

-----------------------------------------------------------------------------
Post(g) == PostAppend(g) \/ PostWakeup(g)

\* The steps a goroutine inside Run takes by itself, Posts of its tasks aside.
RunLoop(r) ==
  \/ RunReceive(r) \/ RunDrain(r)
  \/ TaskBegin(r) \/ TaskEnd(r) \/ BatchEnd(r)

Next ==
  \/ \E g \in Goroutine : Post(g)
  \/ \E r \in Runner : RunEnter(r) \/ RunQuit(r) \/ RunLoop(r)
  \/ Stop

Spec == Init /\ [][Next]_vars

(***************************************************************************)
(* The Go scheduler runs every runnable goroutine, so a goroutine inside   *)
(* Post or Run keeps taking its steps.  A select with several ready cases  *)
(* picks one of them uniformly at random, so a ready case is taken if it   *)
(* is ready again and again: strong fairness for the receive, which a      *)
(* second runner can disable, and for the quit case.  Nothing obliges      *)
(* anyone to call Post, Run or Stop.                                       *)
(***************************************************************************)
Fairness ==
  /\ \A g \in Goroutine : WF_vars(PostWakeup(g))
  /\ \A r \in Runner :
       /\ SF_vars(RunQuit(r))
       /\ SF_vars(RunReceive(r))
       /\ WF_vars(RunDrain(r) \/ TaskBegin(r) \/ TaskEnd(r) \/ BatchEnd(r))

FairSpec == Spec /\ Fairness

-----------------------------------------------------------------------------
\* Properties

Elems(s) == {s[i] : i \in 1..Len(s)}
NoRepeat(s) == \A i, j \in 1..Len(s) : s[i] = s[j] => i = j

\* No lost wakeup: whenever tasks are queued, a token is in the channel, or a
\* Post has yet to send one, or a runner that took one has yet to swap the
\* queue.  Otherwise every runner could sleep in its select on a full queue.
NoLostWakeup ==
  queue # <<>> => \/ wakeup
                  \/ sending # {}
                  \/ \E r \in Runner : pc[r] = "drain"

\* Exactly once: a posted task is in the queue, in the batch of one runner, or
\* finished, and in one of these places only, however often the loop is stopped
\* and restarted while it holds tasks.
NoneLost ==
  \A k \in 1..posted :
    \/ k \in Elems(queue) \/ k \in Elems(done)
    \/ \E r \in Runner : k \in Elems(batch[r])

NoneTwice ==
  /\ NoRepeat(queue) /\ NoRepeat(done) /\ Elems(queue) \cap Elems(done) = {}
  /\ \A r \in Runner :
       /\ NoRepeat(batch[r])
       /\ Elems(batch[r]) \cap Elems(queue) = {}
       /\ Elems(batch[r]) \cap Elems(done) = {}
       /\ \A q \in Runner : q # r => Elems(batch[r]) \cap Elems(batch[q]) = {}

ExactlyOnce == NoneLost /\ NoneTwice

\* A Run that may still block in its select without a closed quit channel is
\* the one el.quit belongs to: Stop can always reach the loop that is live.
OneLiveLoop ==
  \A r \in Runner : pc[r] # "idle" /\ quitOpen[r] => running /\ owner = r

\* A loop said to be running has a goroutine in it that will answer wakeups.
RunningIsServed ==
  running => owner \in Runner /\ quitOpen[owner] /\ pc[owner] # "idle"

\* Across any sequence of Runs and Stops, what Stop sees in el.running and
\* el.quit is the one loop that is live, and that loop is there.
LoopIsKnown == OneLiveLoop /\ RunningIsServed

\* With a single runner the loop is a serial executor: the tasks that have not
\* finished are the runner's batch followed by the queue.
OnlyRunner == CHOOSE r \in Runner : TRUE
Executor == INSTANCE SerialExecutor WITH pending <- batch[OnlyRunner] \o queue

\* Tasks finish one by one in the order in which they were posted, whatever is
\* posted by other goroutines or by the tasks themselves, and across Stop and
\* Run, as long as one goroutine at a time is inside Run.
IsSerialExecutor == Executor!Spec

\* The loop serves whoever uses it: a task queued while the loop is running is
\* executed, unless the loop is stopped first, and a Run whose quit channel is
\* closed returns.
LoopServes ==
  /\ \A k \in Task : (k <= posted /\ running) ~> (k \in Elems(done) \/ ~running)
  /\ \A r \in Runner : ~quitOpen[r] ~> pc[r] = "idle"
=============================================================================
