------------------------------- MODULE Process -------------------------------
(***************************************************************************)
(* The process wrapper of the Go kernel, internal/kernel/process.go.       *)
(*                                                                         *)
(* Start runs a child and spawns two drains, which copy the lines of its   *)
(* stdout and stderr to the channels Output and Error, and a waiter, which *)
(* calls p.cmd.Wait, clears the state and sends the result to Done.  Each  *)
(* Start makes a new command c with its own pipes and goroutines; p.cmd,   *)
(* the state and the channels are shared.  The drains are given their pipe *)
(* by Start; the waiter reads p.cmd itself, when it first runs and without *)
(* the lock, and may find the command of a later Start there.  One drain   *)
(* is modelled, that of stdout: the other runs the same code on a pipe and *)
(* a channel of its own.                                                   *)
(*                                                                         *)
(* The child, its pipes and os/exec are external.  Wait on a command that  *)
(* has not been started fails at once; on another it returns after the     *)
(* child has exited and closes the parent's ends of its pipes, or fails    *)
(* then, because another Wait was there first.                             *)
(***************************************************************************)
EXTENDS Naturals, Sequences

CONSTANTS
  MaxStart,  \* bound: number of Starts in a behaviour
  MaxLine,   \* lines a child writes to stdout unless it is killed
  PipeCap,   \* lines a pipe holds
  OutputCap  \* capacity of Output, 100 in the code

ASSUME ProcessAssumption ==
  /\ MaxStart \in Nat /\ MaxLine \in Nat
  /\ PipeCap \in Nat \ {0} /\ OutputCap \in Nat \ {0}

VARIABLES
  state,    \* p.state; "Starting" lasts as long as Start holds the lock
  current,  \* the command in p.cmd, 0 before the first Start
  writing,  \* a Write is under way and holds the read lock
  killing,  \* a Kill is waiting for the lock
  child,    \* child[c]: "none", "alive" or "exited"
  written,  \* written[c]: number of lines c has written
  stdin,    \* number of lines in the pipe p.stdin, to the command in p.cmd
  pipe,     \* pipe[c]: lines in the pipe from c
  closed,   \* closed[c]: has cmd.Wait closed the pipe from c?
  drain,    \* drain[c]: "none", "scan" or "gone"
  buffer,   \* buffer[c]: lines the scanner of c has read and not delivered
  waiter,   \* waiter[c], spawned by Start c: "none", "begin", "wait", "clear", "send" or "gone"
  cmd,      \* cmd[c]: the command that the waiter of Start c found in p.cmd, or 0
  output,   \* p.Output: <<c, n>> is line n of command c
  done,     \* p.Done, a channel of capacity 1: the Starts whose waiter has sent a result
  seen,     \* history: seen[c], the lines of c received from Output
  reported, \* history: the Starts whose waiter's result was received from Done
  overlap   \* history: has Start been called while the state was Running?

lockVars == <<writing, killing>>
childVars == <<child, written, stdin>>
drainVars == <<drain, buffer>>
waiterVars == <<waiter, cmd>>
callerVars == <<seen, reported, overlap>>
vars == <<state, current, lockVars, childVars, pipe, closed, drainVars, waiterVars,
          output, done, callerVars>>

Command == 1..MaxStart
Lines == 1..MaxLine

ProcessTypeOK ==
  /\ state \in {"NotRunning", "Starting", "Running"}
  /\ current \in 0..MaxStart
  /\ writing \in BOOLEAN /\ killing \in BOOLEAN
  /\ child \in [Command -> {"none", "alive", "exited"}]
  /\ written \in [Command -> 0..MaxLine]
  /\ stdin \in 0..PipeCap
  /\ pipe \in [Command -> Seq(Lines)]
  /\ \A c \in Command : Len(pipe[c]) <= PipeCap
  /\ closed \in [Command -> BOOLEAN]
  /\ drain \in [Command -> {"none", "scan", "gone"}]
  /\ buffer \in [Command -> Seq(Lines)]
  /\ waiter \in [Command -> {"none", "begin", "wait", "clear", "send", "gone"}]
  /\ cmd \in [Command -> 0..MaxStart]
  /\ output \in Seq(Command \X Lines) /\ Len(output) <= OutputCap
  /\ done \in Seq(Command) /\ Len(done) <= 1
  /\ seen \in [Command -> Seq(Lines)]
  /\ reported \subseteq Command /\ overlap \in BOOLEAN

\* NewProcess
Init ==
  /\ state = "NotRunning" /\ current = 0
  /\ writing = FALSE /\ killing = FALSE
  /\ child = [c \in Command |-> "none"]
  /\ written = [c \in Command |-> 0]
  /\ stdin = 0
  /\ pipe = [c \in Command |-> <<>>]
  /\ closed = [c \in Command |-> FALSE]
  /\ drain = [c \in Command |-> "none"]
  /\ buffer = [c \in Command |-> <<>>]
  /\ waiter = [c \in Command |-> "none"]
  /\ cmd = [c \in Command |-> 0]
  /\ output = <<>> /\ done = <<>>
  /\ seen = [c \in Command |-> <<>>] /\ reported = {} /\ overlap = FALSE

-----------------------------------------------------------------------------
\* The methods.  p.mu is a RWMutex: Start, Kill and the waiter take the lock,
\* which a Write under way holds up; a pending lock holds up new Writes.

Starting == state = "Starting"
LockFree == ~writing /\ ~Starting
LockPending == killing \/ \E c \in Command : waiter[c] = "clear"

\* Start puts a new command in p.cmd, which it goes on to start ...
Start ==
  /\ LockFree
  /\ current < MaxStart
  /\ overlap' = (overlap \/ state = "Running")
  /\ current' = current + 1
  /\ state' = "Starting"
  /\ stdin' = 0
  /\ UNCHANGED <<lockVars, child, written, pipe, closed, drainVars, waiterVars, output,
                 done, seen, reported>>

\* ... and succeeds ...
StartSucceeds ==
  /\ Starting
  /\ state' = "Running"
  /\ child' = [child EXCEPT ![current] = "alive"]
  /\ drain' = [drain EXCEPT ![current] = "scan"]
  /\ waiter' = [waiter EXCEPT ![current] = "begin"]
  /\ UNCHANGED <<current, lockVars, written, stdin, pipe, closed, buffer, cmd, output,
                 done, callerVars>>

\* ... or fails to make a pipe or to run the program: no goroutine is spawned.
StartFails ==
  /\ Starting
  /\ state' = "NotRunning"
  /\ UNCHANGED <<current, lockVars, childVars, pipe, closed, drainVars, waiterVars, output,
                 done, callerVars>>

\* Write is refused unless the state is Running; it keeps the read lock until
\* the line is in the pipe, or the write fails because the child is gone.
WriteBegin ==
  /\ ~writing /\ ~LockPending
  /\ state = "Running"
  /\ writing' = TRUE
  /\ UNCHANGED <<state, current, killing, childVars, pipe, closed, drainVars,
                 waiterVars, output, done, callerVars>>

WriteEnd ==
  /\ writing
  /\ \/ child[current] # "alive" /\ UNCHANGED stdin
     \/ /\ child[current] = "alive" /\ stdin < PipeCap
        /\ stdin' = stdin + 1
  /\ writing' = FALSE
  /\ UNCHANGED <<state, current, killing, child, written, pipe, closed, drainVars,
                 waiterVars, output, done, callerVars>>

KillBegin ==
  /\ ~killing
  /\ killing' = TRUE
  /\ UNCHANGED <<state, current, writing, childVars, pipe, closed, drainVars,
                 waiterVars, output, done, callerVars>>

\* Kill, and Terminate when the child heeds it, end the command in p.cmd.
KillEnd ==
  /\ killing
  /\ LockFree
  /\ killing' = FALSE
  /\ child' = [c \in Command |->
                 IF c = current /\ child[c] = "alive" THEN "exited" ELSE child[c]]
  /\ UNCHANGED <<state, current, writing, written, stdin, pipe, closed, drainVars,
                 waiterVars, output, done, callerVars>>

-----------------------------------------------------------------------------
\* The child.  A write waits while the pipe is full.

ChildWrite(c) ==
  /\ child[c] = "alive"
  /\ written[c] < MaxLine
  /\ Len(pipe[c]) < PipeCap
  /\ written' = [written EXCEPT ![c] = @ + 1]
  /\ pipe' = [pipe EXCEPT ![c] = Append(@, written[c] + 1)]
  /\ UNCHANGED <<state, current, lockVars, child, stdin, closed, drainVars, waiterVars,
                 output, done, callerVars>>

ChildRead(c) ==
  /\ c = current
  /\ child[c] = "alive"
  /\ stdin > 0
  /\ stdin' = stdin - 1
  /\ UNCHANGED <<state, current, lockVars, child, written, pipe, closed, drainVars,
                 waiterVars, output, done, callerVars>>

ChildExit(c) ==
  /\ child[c] = "alive"
  /\ written[c] = MaxLine
  /\ child' = [child EXCEPT ![c] = "exited"]
  /\ UNCHANGED <<state, current, lockVars, written, stdin, pipe, closed, drainVars,
                 waiterVars, output, done, callerVars>>

-----------------------------------------------------------------------------
\* The drain of stdout.

\* scanner.Scan with an empty buffer reads what the pipe holds ...
DrainRead(c) ==
  /\ drain[c] = "scan"
  /\ buffer[c] = <<>>
  /\ ~closed[c]
  /\ pipe[c] # <<>>
  /\ buffer' = [buffer EXCEPT ![c] = pipe[c]]
  /\ pipe' = [pipe EXCEPT ![c] = <<>>]
  /\ UNCHANGED <<state, current, lockVars, childVars, closed, drain, waiterVars, output,
                 done, callerVars>>

\* ... and at the end of the file, or when the pipe was closed, false.
DrainEnd(c) ==
  /\ drain[c] = "scan"
  /\ buffer[c] = <<>>
  /\ closed[c] \/ (child[c] = "exited" /\ pipe[c] = <<>>)
  /\ drain' = [drain EXCEPT ![c] = "gone"]
  /\ UNCHANGED <<state, current, lockVars, childVars, pipe, closed, buffer, waiterVars,
                 output, done, callerVars>>

\* Fault: the send has a default case, which drops the line.
DrainSendOrDrop(c) ==
  /\ drain[c] = "scan"
  /\ buffer[c] # <<>>
  /\ output' = IF Len(output) < OutputCap THEN Append(output, <<c, Head(buffer[c])>>)
               ELSE output
  /\ buffer' = [buffer EXCEPT ![c] = Tail(@)]
  /\ UNCHANGED <<state, current, lockVars, childVars, pipe, closed, drain, waiterVars, done,
                 callerVars>>

\* Scan returns true while there is a line in the buffer, which is sent on.
DrainSend(c) ==
  /\ drain[c] = "scan"
  /\ buffer[c] # <<>>
  /\ Len(output) < OutputCap
  /\ output' = Append(output, <<c, Head(buffer[c])>>)
  /\ buffer' = [buffer EXCEPT ![c] = Tail(@)]
  /\ UNCHANGED <<state, current, lockVars, childVars, pipe, closed, drain, waiterVars, done,
                 callerVars>>

-----------------------------------------------------------------------------
\* Fault: the result is sent while the state is still to be cleared.
WaiterWaitAndSend(c) ==
  /\ waiter[c] = "wait"
  /\ child[cmd[c]] # "alive"
  /\ done = <<>>
  /\ done' = Append(done, c)
  /\ closed' = [closed EXCEPT ![cmd[c]] = TRUE]
  /\ waiter' = [waiter EXCEPT ![c] = "clear"]
  /\ UNCHANGED <<state, current, lockVars, childVars, pipe, drainVars, cmd, output,
                 callerVars>>

\* The waiter: p.cmd, its Wait, the state under the lock, Done.

WaiterBegin(c) ==
  /\ waiter[c] = "begin"
  /\ cmd' = [cmd EXCEPT ![c] = current]
  /\ waiter' = [waiter EXCEPT ![c] = "wait"]
  /\ UNCHANGED <<state, current, lockVars, childVars, pipe, closed, drainVars, output,
                 done, callerVars>>

WaiterWait(c) ==
  LET k == cmd[c]
  IN  /\ waiter[c] = "wait"
      /\ child[k] # "alive"
      /\ closed' = [closed EXCEPT ![k] = child[k] = "exited"]
      /\ waiter' = [waiter EXCEPT ![c] = "clear"]
      /\ UNCHANGED <<state, current, lockVars, childVars, pipe, drainVars, cmd, output,
                     done, callerVars>>

\* Fault: the waiter returns without sending if Done is full.
WaiterClearLast(c) ==
  /\ waiter[c] = "clear"
  /\ LockFree
  /\ state' = "NotRunning"
  /\ waiter' = [waiter EXCEPT ![c] = IF done = <<>> THEN "send" ELSE "gone"]
  /\ UNCHANGED <<current, lockVars, childVars, pipe, closed, drainVars, cmd, output, done,
                 callerVars>>

WaiterClear(c) ==
  /\ waiter[c] = "clear"
  /\ LockFree
  /\ state' = "NotRunning"
  /\ waiter' = [waiter EXCEPT ![c] = "send"]
  /\ UNCHANGED <<current, lockVars, childVars, pipe, closed, drainVars, cmd, output, done,
                 callerVars>>

WaiterSend(c) ==
  /\ waiter[c] = "send"
  /\ done = <<>>
  /\ done' = Append(done, c)
  /\ waiter' = [waiter EXCEPT ![c] = "gone"]
  /\ UNCHANGED <<state, current, lockVars, childVars, pipe, closed, drainVars, cmd,
                 output, callerVars>>

-----------------------------------------------------------------------------
\* The caller receives lines and results, in whatever order it likes.

ReceiveOutput ==
  /\ output # <<>>
  /\ seen' = [seen EXCEPT ![Head(output)[1]] = Append(@, Head(output)[2])]
  /\ output' = Tail(output)
  /\ UNCHANGED <<state, current, lockVars, childVars, pipe, closed, drainVars,
                 waiterVars, done, reported, overlap>>

ReceiveDone ==
  /\ done # <<>>
  /\ reported' = reported \cup {Head(done)}
  /\ done' = Tail(done)
  /\ UNCHANGED <<state, current, lockVars, childVars, pipe, closed, drainVars,
                 waiterVars, output, seen, overlap>>

-----------------------------------------------------------------------------
Child(c) == ChildWrite(c) \/ ChildRead(c) \/ ChildExit(c)
Drain(c) == DrainRead(c) \/ DrainEnd(c) \/ DrainSend(c)
Waiter(c) == WaiterBegin(c) \/ WaiterWait(c) \/ WaiterClear(c) \/ WaiterSend(c)

Next ==
  \/ Start \/ StartSucceeds \/ StartFails
  \/ WriteBegin \/ WriteEnd \/ KillBegin \/ KillEnd
  \/ ReceiveOutput \/ ReceiveDone
  \/ \E c \in Command : Child(c) \/ Drain(c) \/ Waiter(c)

Spec == Init /\ [][Next]_vars

(***************************************************************************)
(* The goroutines are scheduled, and a pending lock is granted because no  *)
(* new Write overtakes it.  Of the child it is assumed that it goes on     *)
(* writing and exits, and that it reads its stdin; of the caller, that it  *)
(* goes on receiving from both channels.  A child that never reads leaves  *)
(* a Write, and every method that takes the lock, waiting for ever; so     *)
(* does a caller that waits for Done before it reads Output, once Output   *)
(* and the pipe are full.                                                  *)
(***************************************************************************)
Fairness ==
  /\ WF_vars(StartSucceeds \/ StartFails)
  /\ WF_vars(WriteEnd) /\ WF_vars(KillEnd)
  /\ WF_vars(ReceiveOutput) /\ WF_vars(ReceiveDone)
  /\ \A c \in Command :
       /\ WF_vars(ChildRead(c))
       /\ WF_vars(ChildWrite(c) \/ ChildExit(c))
       /\ WF_vars(Drain(c)) /\ WF_vars(Waiter(c))

FairSpec == Spec /\ Fairness

-----------------------------------------------------------------------------
\* Properties

\* What the caller sees of a command is an initial part of what the command
\* wrote, in order and without gaps: lines are lost at the end only.  No channel
\* or pipe holds more than its capacity on the way.
LinesInOrder ==
  /\ ProcessTypeOK
  /\ \A c \in Command :
       /\ Len(seen[c]) <= written[c]
       /\ \A i \in 1..Len(seen[c]) : seen[c][i] = i

\* A caller that Starts only a process that is not running can rely on State:
\* the child of the last Start is never alive while the state is NotRunning.
\* Started twice without waiting, the first waiter clears the second's state.
\* And, "expected process to be not running after finish" (process_test.go:48),
\* when the caller has the result of the last Start the state is NotRunning.
StateIsTrue ==
  /\ ~overlap /\ current > 0 /\ child[current] = "alive" => state = "Running"
  /\ current \in reported => state = "NotRunning"

\* Calls come to an end: every Start that runs a child is answered by a result,
\* even if the child fills its pipe on the way and the result of an earlier one is
\* still in Done, and by the result of that child unless Starts overlapped; for then
\* a waiter may find a later command in p.cmd, and nobody waits for its own.  And a
\* Kill gets the lock and returns, although Writes and Starts go on.
CallsEnd ==
  /\ \A c \in Command : child[c] = "alive" ~> c \in reported /\ (cmd[c] = c \/ overlap)
  /\ killing ~> ~killing

\* "timed out waiting for output" (process_test.go:33): when a child has exited
\* by itself, been reported, and nothing is on its way, every line it wrote has
\* been received.  The code does not guarantee it: cmd.Wait runs beside the
\* drain and closes the pipe with the lines the drain has not read.
NoLineLost ==
  \A c \in Command :
    c \in reported /\ drain[c] = "gone" /\ output = <<>> => Len(seen[c]) = written[c]
=============================================================================
