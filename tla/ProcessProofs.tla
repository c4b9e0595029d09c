---------------------------- MODULE ProcessProofs ----------------------------
(***************************************************************************)
(* Proofs about Process, for any number of Starts and lines and any        *)
(* capacities.                                                             *)
(*                                                                         *)
(* LinesInOrder is about the lines that have come out at the end; the      *)
(* inductive invariant LinesInv follows them through the pipe, the buffer  *)
(* of the scanner and the channel, which two commands may share.           *)
(* StateIsTrue needs WaiterInv: how far the waiters of the last command    *)
(* and of the earlier ones have come, and what the state is by then.       *)
(***************************************************************************)
EXTENDS Process, Integers, TLAPS

\* The lines of c that have left the drain.
Sent(c) == written[c] - Len(pipe[c]) - Len(buffer[c])

\* The lines of c are numbered through the pipe, the buffer and what was seen;
\* those that were sent and not seen are in the channel.
LineInv(c) ==
  /\ \A i \in 1..Len(pipe[c]) : pipe[c][i] = written[c] - Len(pipe[c]) + i
  /\ \A i \in 1..Len(buffer[c]) : buffer[c][i] = Sent(c) + i
  /\ \A i \in 1..Len(seen[c]) : seen[c][i] = i
  /\ Len(seen[c]) <= Sent(c)
  /\ \A i \in 1..Len(output) :
       output[i][1] = c => Len(seen[c]) < output[i][2] /\ output[i][2] <= Sent(c)
  /\ \A n \in Len(seen[c]) + 1..Sent(c) : \E i \in 1..Len(output) : output[i] = <<c, n>>

\* The channel keeps the order of the lines of each command.
OutputInv ==
  \A i, j \in 1..Len(output) :
    i < j /\ output[i][1] = output[j][1] => output[i][2] < output[j][2]

LinesInv == ProcessTypeOK /\ OutputInv /\ \A c \in Command : LineInv(c)

\* The waiters and the state.  Only overlapping Starts leave a waiter with another
\* command than its own, or a child alive that no waiter waits for.
WaiterInv ==
  /\ \A c \in Command :
       /\ c > current \/ (c = current /\ Starting) => waiter[c] = "none" /\ child[c] = "none"
       /\ ~overlap /\ child[c] = "alive" => waiter[c] \in {"begin", "wait"}
       /\ ~overlap /\ waiter[c] = "wait" => cmd[c] = c
       /\ ~overlap /\ c < current => waiter[c] \notin {"begin", "wait", "clear"}
       /\ c \in reported \/ (\E i \in 1..Len(done) : done[i] = c) => waiter[c] = "gone"
  /\ current > 0 =>
       /\ ~overlap /\ waiter[current] \in {"begin", "wait", "clear"} => state = "Running"
       /\ waiter[current] \in {"send", "gone"} => state = "NotRunning"

-----------------------------------------------------------------------------
\* Sequences as channels and pipes.

LEMMA AppendFacts ==
  ASSUME NEW S, NEW s \in Seq(S), NEW e \in S
  PROVE  /\ Append(s, e) \in Seq(S)
         /\ Len(s) \in Nat /\ Len(Append(s, e)) = Len(s) + 1
         /\ Append(s, e)[Len(s) + 1] = e
         /\ \A i \in 1..Len(s) : Append(s, e)[i] = s[i]
OBVIOUS

LEMMA TailFacts ==
  ASSUME NEW S, NEW s \in Seq(S), s # <<>>
  PROVE  /\ Head(s) = s[1] /\ Head(s) \in S /\ Tail(s) \in Seq(S)
         /\ Len(s) \in Nat /\ Len(s) >= 1 /\ Len(Tail(s)) = Len(s) - 1
         /\ \A i \in 1..Len(s) - 1 : Tail(s)[i] = s[i + 1]
OBVIOUS

-----------------------------------------------------------------------------
\* Lines in order.

LEMMA LinesInitially == Init => LinesInv
<1> SUFFICES ASSUME Init
             PROVE  LinesInv
  OBVIOUS
<1>1. ProcessTypeOK
  <2>1. /\ <<>> \in Seq(Lines) /\ <<>> \in Seq(Command) /\ <<>> \in Seq(Command \X Lines)
        /\ Len(<<>>) = 0
    OBVIOUS
  <2>2. /\ current \in 0..MaxStart /\ written \in [Command -> 0..MaxLine]
        /\ stdin \in 0..PipeCap /\ cmd \in [Command -> 0..MaxStart]
    BY ProcessAssumption DEF Init
  <2>3. /\ pipe \in [Command -> Seq(Lines)] /\ \A c \in Command : Len(pipe[c]) <= PipeCap
        /\ buffer \in [Command -> Seq(Lines)] /\ seen \in [Command -> Seq(Lines)]
        /\ output \in Seq(Command \X Lines) /\ Len(output) <= OutputCap
        /\ done \in Seq(Command) /\ Len(done) <= 1
    BY <2>1, ProcessAssumption DEF Init
  <2> QED
    BY <2>2, <2>3 DEF Init, ProcessTypeOK
<1>2. OutputInv
  BY DEF Init, OutputInv
<1>3. \A c \in Command : LineInv(c)
  BY DEF Init, LineInv, Sent
<1> QED
  BY <1>1, <1>2, <1>3 DEF LinesInv

LEMMA LinesAreCounted ==
  ASSUME ProcessTypeOK, NEW c \in Command
  PROVE  /\ written[c] \in Nat /\ Len(pipe[c]) \in Nat /\ Len(buffer[c]) \in Nat
         /\ Len(seen[c]) \in Nat
BY ProcessAssumption DEF ProcessTypeOK

\* Steps that move no line.
LEMMA LinesStay ==
  ASSUME LinesInv, ProcessTypeOK', UNCHANGED <<written, pipe, buffer, seen, output>>
  PROVE  LinesInv'
<1>1. \A c \in Command : LineInv(c)'
  BY DEF LinesInv, LineInv, Sent
<1>2. OutputInv'
  BY DEF LinesInv, OutputInv
<1> QED
  BY <1>1, <1>2 DEF LinesInv

LEMMA CallerKeepsLines ==
  ASSUME LinesInv, Start \/ StartSucceeds \/ StartFails \/ WriteBegin \/ WriteEnd
                   \/ KillBegin \/ KillEnd \/ ReceiveDone \/ UNCHANGED vars
  PROVE  LinesInv'
<1> USE ProcessAssumption DEF lockVars, childVars, drainVars, waiterVars, callerVars
<1>0. ProcessTypeOK
  BY DEF LinesInv
<1>1. CASE Start
  <2>1. overlap' \in BOOLEAN /\ current' \in 0..MaxStart /\ stdin' \in 0..PipeCap
    BY <1>0, <1>1 DEF Start, ProcessTypeOK
  <2>2. ProcessTypeOK'
    BY <1>0, <1>1, <2>1 DEF Start, ProcessTypeOK
  <2> QED
    BY <1>1, <2>2, LinesStay DEF Start
<1>2. CASE StartSucceeds
  <2>1. /\ child' \in [Command -> {"none", "alive", "exited"}]
        /\ drain' \in [Command -> {"none", "scan", "gone"}]
        /\ waiter' \in [Command -> {"none", "begin", "wait", "clear", "send", "gone"}]
    BY <1>0, <1>2 DEF StartSucceeds, ProcessTypeOK
  <2>2. ProcessTypeOK'
    BY <1>0, <1>2, <2>1 DEF StartSucceeds, ProcessTypeOK
  <2> QED
    BY <1>2, <2>2, LinesStay DEF StartSucceeds
<1>9. CASE StartFails
  <2>1. ProcessTypeOK'
    BY <1>0, <1>9 DEF StartFails, ProcessTypeOK
  <2> QED
    BY <1>9, <2>1, LinesStay DEF StartFails
<1>3. CASE WriteBegin
  <2>1. ProcessTypeOK'
    BY <1>0, <1>3 DEF WriteBegin, ProcessTypeOK
  <2> QED
    BY <1>3, <2>1, LinesStay DEF WriteBegin
<1>4. CASE WriteEnd
  <2>0. stdin' \in 0..PipeCap
    BY <1>0, <1>4 DEF WriteEnd, ProcessTypeOK
  <2>1. ProcessTypeOK'
    BY <1>0, <1>4, <2>0 DEF WriteEnd, ProcessTypeOK
  <2> QED
    BY <1>4, <2>1, LinesStay DEF WriteEnd
<1>5. CASE KillBegin
  <2>1. ProcessTypeOK'
    BY <1>0, <1>5 DEF KillBegin, ProcessTypeOK
  <2> QED
    BY <1>5, <2>1, LinesStay DEF KillBegin
<1>6. CASE KillEnd
  <2>1. ProcessTypeOK'
    BY <1>0, <1>6 DEF KillEnd, ProcessTypeOK
  <2> QED
    BY <1>6, <2>1, LinesStay DEF KillEnd
<1>7. CASE ReceiveDone
  <2>1. ProcessTypeOK'
    BY <1>0, <1>7, TailFacts DEF ReceiveDone, ProcessTypeOK
  <2> QED
    BY <1>7, <2>1, LinesStay DEF ReceiveDone
<1>8. CASE UNCHANGED vars
  <2>1. ProcessTypeOK'
    BY <1>0, <1>8 DEF vars, ProcessTypeOK
  <2> QED
    BY <1>8, <2>1, LinesStay DEF vars
<1> QED
  BY <1>1, <1>2, <1>3, <1>4, <1>5, <1>6, <1>7, <1>8, <1>9

LEMMA QuietKeepsLines ==
  ASSUME LinesInv, NEW c \in Command,
         ChildRead(c) \/ ChildExit(c) \/ DrainEnd(c) \/ Waiter(c)
  PROVE  LinesInv'
<1> USE ProcessAssumption DEF lockVars, childVars, drainVars, waiterVars, callerVars
<1>0. ProcessTypeOK
  BY DEF LinesInv
<1>1. CASE ChildRead(c)
  <2>0. stdin' \in 0..PipeCap
    BY <1>0, <1>1 DEF ChildRead, ProcessTypeOK
  <2>1. ProcessTypeOK'
    BY <1>0, <1>1, <2>0 DEF ChildRead, ProcessTypeOK
  <2> QED
    BY <1>1, <2>1, LinesStay DEF ChildRead
<1>2. CASE ChildExit(c)
  <2>1. ProcessTypeOK'
    BY <1>0, <1>2 DEF ChildExit, ProcessTypeOK
  <2> QED
    BY <1>2, <2>1, LinesStay DEF ChildExit
<1>3. CASE WaiterBegin(c)
  <2>1. ProcessTypeOK'
    BY <1>0, <1>3 DEF WaiterBegin, ProcessTypeOK
  <2> QED
    BY <1>3, <2>1, LinesStay DEF WaiterBegin
<1>4. CASE DrainEnd(c)
  <2>1. ProcessTypeOK'
    BY <1>0, <1>4 DEF DrainEnd, ProcessTypeOK
  <2> QED
    BY <1>4, <2>1, LinesStay DEF DrainEnd
<1>5. CASE WaiterWait(c)
  <2>1. ProcessTypeOK'
    BY <1>0, <1>5 DEF WaiterWait, ProcessTypeOK
  <2> QED
    BY <1>5, <2>1, LinesStay DEF WaiterWait
<1>6. CASE WaiterClear(c)
  <2>1. ProcessTypeOK'
    BY <1>0, <1>6 DEF WaiterClear, ProcessTypeOK
  <2> QED
    BY <1>6, <2>1, LinesStay DEF WaiterClear
<1>7. CASE WaiterSend(c)
  <2>1. ProcessTypeOK'
    BY <1>0, <1>7, AppendFacts DEF WaiterSend, ProcessTypeOK
  <2> QED
    BY <1>7, <2>1, LinesStay DEF WaiterSend
<1> QED
  BY <1>1, <1>2, <1>3, <1>4, <1>5, <1>6, <1>7 DEF Waiter

LEMMA ChildWriteKeepsLines ==
  ASSUME LinesInv, NEW c \in Command, ChildWrite(c)
  PROVE  LinesInv'
<1> DEFINE n == written[c] + 1
<1>1. /\ ProcessTypeOK /\ n \in Lines /\ pipe[c] \in Seq(Lines) /\ Len(pipe[c]) < PipeCap
      /\ written[c] \in Nat /\ Len(buffer[c]) \in Nat
      /\ written' = [written EXCEPT ![c] = n]
      /\ pipe' = [pipe EXCEPT ![c] = Append(pipe[c], n)]
      /\ UNCHANGED <<buffer, seen, output>>
  BY ProcessAssumption DEF LinesInv, ProcessTypeOK, ChildWrite, Lines, drainVars, callerVars
<1> HIDE DEF n
<1>2. /\ Append(pipe[c], n) \in Seq(Lines) /\ Len(Append(pipe[c], n)) = Len(pipe[c]) + 1
      /\ Append(pipe[c], n)[Len(pipe[c]) + 1] = n
      /\ \A i \in 1..Len(pipe[c]) : Append(pipe[c], n)[i] = pipe[c][i]
      /\ Len(pipe[c]) \in Nat
  BY <1>1, AppendFacts
<1>3. ProcessTypeOK'
  <2>1. pipe' \in [Command -> Seq(Lines)] /\ \A k \in Command : Len(pipe'[k]) <= PipeCap
    BY <1>1, <1>2, ProcessAssumption DEF ProcessTypeOK
  <2>2. written' \in [Command -> 0..MaxLine]
    BY <1>1 DEF ProcessTypeOK, Lines
  <2> QED
    BY <1>1, <2>1, <2>2
       DEF ProcessTypeOK, ChildWrite, lockVars, drainVars, waiterVars, callerVars
<1>4. LineInv(c)'
  <2>1. written'[c] = n /\ n = written[c] + 1 /\ pipe'[c] = Append(pipe[c], n)
    BY <1>1 DEF ProcessTypeOK, n
  <2>2. Sent(c)' = Sent(c)
    BY <1>1, <1>2, <2>1 DEF Sent
  <2>3. \A i \in 1..Len(pipe'[c]) : pipe'[c][i] = written'[c] - Len(pipe'[c]) + i
    BY <1>1, <1>2, <2>1 DEF LinesInv, LineInv
  <2> QED
    BY <1>1, <2>2, <2>3 DEF LinesInv, LineInv
<1>5. \A k \in Command \ {c} : LineInv(k)'
  BY <1>1 DEF ProcessTypeOK, LinesInv, LineInv, Sent
<1>6. OutputInv'
  BY <1>1 DEF LinesInv, OutputInv
<1> QED
  BY <1>3, <1>4, <1>5, <1>6 DEF LinesInv

LEMMA DrainReadKeepsLines ==
  ASSUME LinesInv, NEW c \in Command, DrainRead(c)
  PROVE  LinesInv'
<1>1. /\ ProcessTypeOK /\ pipe[c] \in Seq(Lines) /\ written[c] \in Nat
      /\ buffer' = [buffer EXCEPT ![c] = pipe[c]] /\ pipe' = [pipe EXCEPT ![c] = <<>>]
      /\ buffer[c] = <<>>
      /\ UNCHANGED <<written, seen, output>>
  BY ProcessAssumption DEF LinesInv, ProcessTypeOK, DrainRead, childVars, callerVars
<1>2. /\ <<>> \in Seq(Lines) /\ Len(<<>>) = 0 /\ Len(pipe[c]) \in Nat
  BY <1>1
<1>3. ProcessTypeOK'
  <2>1. pipe' \in [Command -> Seq(Lines)] /\ \A k \in Command : Len(pipe'[k]) <= PipeCap
    BY <1>1, <1>2, ProcessAssumption DEF ProcessTypeOK
  <2>2. buffer' \in [Command -> Seq(Lines)]
    BY <1>1 DEF ProcessTypeOK
  <2> QED
    BY <1>1, <2>1, <2>2
       DEF ProcessTypeOK, DrainRead, lockVars, childVars, waiterVars, callerVars
<1>4. LineInv(c)'
  <2>1. buffer'[c] = pipe[c] /\ pipe'[c] = <<>>
    BY <1>1 DEF ProcessTypeOK
  <2>2. Sent(c)' = Sent(c) /\ Sent(c) = written[c] - Len(pipe[c])
    BY <1>1, <1>2, <2>1 DEF Sent
  <2>3. \A i \in 1..Len(buffer'[c]) : buffer'[c][i] = Sent(c)' + i
    BY <1>1, <1>2, <2>1, <2>2 DEF LinesInv, LineInv
  <2>4. \A i \in 1..Len(pipe'[c]) : pipe'[c][i] = written'[c] - Len(pipe'[c]) + i
    BY <1>2, <2>1
  <2> QED
    BY <1>1, <2>2, <2>3, <2>4 DEF LinesInv, LineInv
<1>5. \A k \in Command \ {c} : LineInv(k)'
  <2> SUFFICES ASSUME NEW k \in Command \ {c}
               PROVE  LineInv(k)'
    OBVIOUS
  <2>1. buffer'[k] = buffer[k] /\ pipe'[k] = pipe[k] /\ LineInv(k)
    BY <1>1 DEF ProcessTypeOK, LinesInv
  <2>2. Sent(k)' = Sent(k)
    BY <1>1, <2>1 DEF Sent
  <2> QED
    BY <1>1, <2>1, <2>2 DEF LineInv
<1>6. OutputInv'
  BY <1>1 DEF LinesInv, OutputInv
<1> QED
  BY <1>3, <1>4, <1>5, <1>6 DEF LinesInv

LEMMA SentMoves ==
  ASSUME NEW c, written[c] \in Nat, Len(pipe[c]) \in Nat, Len(buffer[c]) \in Nat,
         written'[c] = written[c], Len(pipe'[c]) = Len(pipe[c]),
         Len(buffer'[c]) = Len(buffer[c]) - 1
  PROVE  Sent(c)' = Sent(c) + 1
BY DEF Sent

\* The drain of c sends the next line of c.
LEMMA DrainSendKeepsLines ==
  ASSUME LinesInv, NEW c \in Command, DrainSend(c)
  PROVE  LinesInv'
<1> DEFINE e == <<c, Head(buffer[c])>>
<1>1. /\ ProcessTypeOK /\ Len(output) < OutputCap
      /\ output' = Append(output, e) /\ buffer' = [buffer EXCEPT ![c] = Tail(buffer[c])]
      /\ UNCHANGED <<written, pipe, seen>>
      /\ buffer[c] \in Seq(Lines) /\ buffer[c] # <<>>
      /\ written[c] \in Nat /\ Len(pipe[c]) \in Nat
      /\ output \in Seq(Command \X Lines)
  <2>1. /\ ProcessTypeOK /\ buffer[c] # <<>> /\ Len(output) < OutputCap
        /\ output' = Append(output, e) /\ buffer' = [buffer EXCEPT ![c] = Tail(buffer[c])]
        /\ UNCHANGED <<written, pipe, seen>>
    BY DEF LinesInv, DrainSend, childVars, callerVars
  <2> HIDE DEF e
  <2>2. /\ buffer[c] \in Seq(Lines) /\ output \in Seq(Command \X Lines)
        /\ written[c] \in Nat /\ Len(pipe[c]) \in Nat
    BY <2>1, LinesAreCounted DEF ProcessTypeOK
  <2> QED
    BY <2>1, <2>2
<1>2. /\ Head(buffer[c]) = buffer[c][1] /\ Head(buffer[c]) \in Lines
      /\ Tail(buffer[c]) \in Seq(Lines) /\ Len(buffer[c]) \in Nat /\ Len(buffer[c]) >= 1
      /\ Len(Tail(buffer[c])) = Len(buffer[c]) - 1
      /\ \A i \in 1..Len(buffer[c]) - 1 : Tail(buffer[c])[i] = buffer[c][i + 1]
  BY <1>1, TailFacts
<1>3. e \in Command \X Lines /\ e[1] = c /\ e[2] = Head(buffer[c])
  BY <1>2
<1>4. e[2] = Sent(c) + 1
  BY <1>2, <1>3 DEF LinesInv, LineInv
<1>5. e = <<c, Sent(c) + 1>>
  BY <1>3, <1>4
<1> HIDE DEF e
<1>6. /\ output' \in Seq(Command \X Lines) /\ Len(output) \in Nat
      /\ Len(output') = Len(output) + 1 /\ output'[Len(output) + 1] = e
      /\ \A i \in 1..Len(output) : output'[i] = output[i]
  BY <1>1, <1>3, AppendFacts
<1>7. ProcessTypeOK'
  <2>1. output' \in Seq(Command \X Lines) /\ Len(output') <= OutputCap
    BY <1>1, <1>6, ProcessAssumption DEF ProcessTypeOK
  <2>2. buffer' \in [Command -> Seq(Lines)]
    BY <1>1, <1>2 DEF ProcessTypeOK
  <2> QED
    BY <1>1, <2>1, <2>2
       DEF ProcessTypeOK, DrainSend, lockVars, childVars, waiterVars, callerVars
<1>8. buffer'[c] = Tail(buffer[c])
  BY <1>1 DEF ProcessTypeOK
<1>9. Sent(c)' = Sent(c) + 1 /\ Sent(c) \in Int
  <2>1. /\ written'[c] = written[c] /\ Len(pipe'[c]) = Len(pipe[c])
        /\ Len(buffer'[c]) = Len(buffer[c]) - 1
    BY <1>1, <1>2, <1>8
  <2>2. written[c] \in Nat /\ Len(pipe[c]) \in Nat /\ Len(buffer[c]) \in Nat
    BY <1>1, <1>2
  <2>3. Sent(c)' = Sent(c) + 1
    BY <2>1, <2>2, SentMoves
  <2>4. Sent(c) \in Int
    BY <2>2 DEF Sent
  <2> QED
    BY <2>3, <2>4
<1>10. Len(seen[c]) \in Nat /\ Len(seen[c]) <= Sent(c)
  BY <1>1 DEF ProcessTypeOK, LinesInv, LineInv
<1>11. LineInv(c)'
  <2>1. \A i \in 1..Len(buffer'[c]) : buffer'[c][i] = Sent(c)' + i
    BY <1>2, <1>8, <1>9 DEF LinesInv, LineInv
  <2>2. \A i \in 1..Len(output') :
          output'[i][1] = c => Len(seen'[c]) < output'[i][2] /\ output'[i][2] <= Sent(c)'
    <3> SUFFICES ASSUME NEW i \in 1..Len(output'), output'[i][1] = c
                 PROVE  Len(seen[c]) < output'[i][2] /\ output'[i][2] <= Sent(c) + 1
      BY <1>1, <1>9
    <3>1. CASE i \in 1..Len(output)
      <4>1. output'[i] = output[i] /\ output[i][2] \in Nat
        BY <1>1, <1>6, <3>1 DEF Lines
      <4> QED
        BY <1>9, <3>1, <4>1 DEF LinesInv, LineInv
    <3>2. CASE i = Len(output) + 1
      BY <1>4, <1>6, <1>9, <1>10, <3>2
    <3> QED
      BY <1>6, <3>1, <3>2
  <2>3. \A k \in Len(seen'[c]) + 1..Sent(c)' : \E i \in 1..Len(output') : output'[i] = <<c, k>>
    <3> SUFFICES ASSUME NEW k \in Len(seen[c]) + 1..Sent(c) + 1
                 PROVE  \E i \in 1..Len(output') : output'[i] = <<c, k>>
      BY <1>1, <1>9
    <3>1. CASE k = Sent(c) + 1
      <4>1. Len(output) + 1 \in 1..Len(output')
        BY <1>6
      <4> QED
        BY <1>5, <1>6, <3>1, <4>1
    <3>2. CASE k \in Len(seen[c]) + 1..Sent(c)
      <4>1. PICK i \in 1..Len(output) : output[i] = <<c, k>>
        BY <3>2 DEF LinesInv, LineInv
      <4> QED
        BY <1>6, <4>1
    <3> QED
      BY <1>9, <1>10, <3>1, <3>2
  <2>4. /\ Len(seen'[c]) <= Sent(c)' /\ \A i \in 1..Len(seen'[c]) : seen'[c][i] = i
        /\ \A i \in 1..Len(pipe'[c]) : pipe'[c][i] = written'[c] - Len(pipe'[c]) + i
    BY <1>1, <1>9 DEF LinesInv, LineInv, ProcessTypeOK
  <2> QED
    BY <1>8, <2>1, <2>2, <2>3, <2>4 DEF LineInv
<1>12. \A k \in Command \ {c} : LineInv(k)'
  <2> SUFFICES ASSUME NEW k \in Command \ {c}
               PROVE  LineInv(k)'
    OBVIOUS
  <2>1. buffer'[k] = buffer[k] /\ Sent(k)' = Sent(k) /\ LineInv(k)
    BY <1>1 DEF ProcessTypeOK, Sent, LinesInv
  <2>2. /\ \A i \in 1..Len(output') : output'[i][1] = k =>
             Len(seen[k]) < output'[i][2] /\ output'[i][2] <= Sent(k)
        /\ \A n \in Len(seen[k]) + 1..Sent(k) : \E i \in 1..Len(output') : output'[i] = <<k, n>>
    <3>1. ASSUME NEW i \in 1..Len(output'), output'[i][1] = k
          PROVE  i \in 1..Len(output) /\ output'[i] = output[i]
      BY <1>3, <1>6, <3>1
    <3>2. \A i \in 1..Len(output) : i \in 1..Len(output') /\ output'[i] = output[i]
      BY <1>6
    <3> QED
      BY <2>1, <3>1, <3>2 DEF LineInv
  <2> QED
    BY <1>1, <2>1, <2>2 DEF LineInv
<1>13. OutputInv'
  <2>1. \A i \in 1..Len(output) : output[i][1] = c => output[i][2] < e[2]
    <3>1. \A i \in 1..Len(output) : output[i][2] \in Nat
      BY <1>1 DEF Lines
    <3>2. \A i \in 1..Len(output) : output[i][1] = c => output[i][2] <= Sent(c)
      BY DEF LinesInv, LineInv
    <3> QED
      BY <1>4, <1>9, <3>1, <3>2
  <2> SUFFICES ASSUME NEW i \in 1..Len(output'), NEW j \in 1..Len(output'),
                      i < j, output'[i][1] = output'[j][1]
               PROVE  output'[i][2] < output'[j][2]
    BY DEF OutputInv
  <2>2. i \in 1..Len(output) /\ output'[i] = output[i]
    <3>1. Len(output) \in Nat /\ j <= Len(output) + 1 /\ i \in Nat /\ j \in Nat /\ 1 <= i
      BY <1>6
    <3>2. i \in 1..Len(output)
      BY <3>1
    <3> QED
      BY <1>6, <3>2
  <2>3. CASE j \in 1..Len(output)
    <3>1. output'[j] = output[j]
      BY <1>6, <2>3
    <3> QED
      BY <2>2, <2>3, <3>1 DEF LinesInv, OutputInv
  <2>4. CASE j = Len(output) + 1
    BY <1>3, <1>6, <2>1, <2>2, <2>4
  <2> QED
    BY <1>6, <2>3, <2>4
<1> QED
  BY <1>7, <1>11, <1>12, <1>13 DEF LinesInv

\* The first line in the channel is the next one of its command: an earlier one
\* would be in the channel too, and behind it.
LEMMA ReceiveKeepsLines ==
  ASSUME LinesInv, ReceiveOutput
  PROVE  LinesInv'
<1>1. /\ ProcessTypeOK /\ output \in Seq(Command \X Lines) /\ output # <<>>
      /\ seen' = [seen EXCEPT ![Head(output)[1]] = Append(@, Head(output)[2])]
      /\ output' = Tail(output)
      /\ UNCHANGED <<written, pipe, buffer>>
  BY DEF LinesInv, ProcessTypeOK, ReceiveOutput, childVars, drainVars
<1>2. /\ Head(output) = output[1] /\ Head(output) \in Command \X Lines
      /\ output' \in Seq(Command \X Lines) /\ Len(output) \in Nat /\ Len(output) >= 1
      /\ Len(output') = Len(output) - 1
      /\ \A i \in 1..Len(output) - 1 : output'[i] = output[i + 1]
  BY <1>1, TailFacts
<1>3. PICK c \in Command, n \in Lines :
        /\ output[1] = <<c, n>> /\ output[1][1] = c /\ output[1][2] = n
        /\ seen' = [seen EXCEPT ![c] = Append(seen[c], n)]
  <2>1. /\ Head(output)[1] \in Command /\ Head(output)[2] \in Lines
        /\ output[1] = <<Head(output)[1], Head(output)[2]>>
        /\ output[1][1] = Head(output)[1] /\ output[1][2] = Head(output)[2]
    BY <1>2
  <2>2. seen' = [seen EXCEPT ![Head(output)[1]] =
                   Append(seen[Head(output)[1]], Head(output)[2])]
    BY <1>1
  <2> QED
    BY <2>1, <2>2
<1>4. /\ seen[c] \in Seq(Lines) /\ Len(seen[c]) \in Nat /\ n \in Nat
      /\ \A i \in 1..Len(output) : output[i][2] \in Nat
  <2>1. seen[c] \in Seq(Lines)
    BY <1>1 DEF ProcessTypeOK
  <2>2. Len(seen[c]) \in Nat
    BY <2>1
  <2>3. \A i \in 1..Len(output) : output[i] \in Command \X Lines
    BY <1>1
  <2> QED
    BY <2>1, <2>2, <2>3 DEF Lines
<1>5. Sent(c) \in Int
  <2>1. written[c] \in Nat /\ Len(pipe[c]) \in Nat /\ Len(buffer[c]) \in Nat
    BY <1>1, LinesAreCounted
  <2> QED
    BY <2>1 DEF Sent
<1>6. LineInv(c) /\ OutputInv
  BY <1>3 DEF LinesInv
<1>7. n = Len(seen[c]) + 1 /\ n <= Sent(c)
  <2>1. Len(seen[c]) < n /\ n <= Sent(c) /\ 1 \in 1..Len(output)
    BY <1>2, <1>3, <1>6 DEF LineInv
  <2>2. PICK i \in 1..Len(output) : output[i] = <<c, Len(seen[c]) + 1>>
    <3>1. Len(seen[c]) + 1 \in Len(seen[c]) + 1..Sent(c)
      BY <1>4, <1>5, <2>1
    <3> QED
      BY <1>6, <3>1 DEF LineInv
  <2>3. CASE i = 1
    BY <1>3, <2>1, <2>2, <2>3
  <2>4. CASE i # 1
    <3>1. n < Len(seen[c]) + 1
      BY <1>3, <1>6, <2>1, <2>2, <2>4 DEF OutputInv
    <3> QED
      BY <1>4, <2>1, <3>1
  <2> QED
    BY <2>3, <2>4
<1>8. /\ seen'[c] \in Seq(Lines) /\ Len(seen'[c]) = Len(seen[c]) + 1
      /\ seen'[c][Len(seen[c]) + 1] = n
      /\ \A i \in 1..Len(seen[c]) : seen'[c][i] = seen[c][i]
  <2>1. seen'[c] = Append(seen[c], n)
    BY <1>1, <1>3 DEF ProcessTypeOK
  <2> QED
    BY <1>3, <1>4, <2>1, AppendFacts
<1>9. ProcessTypeOK'
  <2>1. output' \in Seq(Command \X Lines) /\ Len(output') <= OutputCap
    BY <1>1, <1>2, ProcessAssumption DEF ProcessTypeOK
  <2>2. seen' \in [Command -> Seq(Lines)]
    <3>1. Append(seen[c], n) \in Seq(Lines)
      BY <1>3, <1>4, AppendFacts
    <3> QED
      BY <1>1, <1>3, <3>1 DEF ProcessTypeOK
  <2> QED
    BY <1>1, <2>1, <2>2
       DEF ProcessTypeOK, ReceiveOutput, lockVars, childVars, drainVars, waiterVars
<1>10. \A k \in Command : Sent(k)' = Sent(k)
  BY <1>1 DEF Sent
<1>11. \A i \in 1..Len(output') : i + 1 \in 1..Len(output) /\ output'[i] = output[i + 1]
  BY <1>2
<1>12. LineInv(c)'
  <2>1. \A i \in 1..Len(output') :
          output'[i][1] = c => Len(seen'[c]) < output'[i][2] /\ output'[i][2] <= Sent(c)'
    <3> SUFFICES ASSUME NEW i \in 1..Len(output'), output'[i][1] = c
                 PROVE  Len(seen[c]) + 1 < output'[i][2] /\ output'[i][2] <= Sent(c)
      BY <1>3, <1>8, <1>10
    <3>1. i + 1 \in 1..Len(output) /\ output'[i] = output[i + 1] /\ 1 < i + 1 /\ 1 \in 1..Len(output)
      BY <1>2, <1>11
    <3> QED
      BY <1>3, <1>6, <1>7, <3>1 DEF LineInv, OutputInv
  <2>2. \A k \in Len(seen'[c]) + 1..Sent(c)' : \E i \in 1..Len(output') : output'[i] = <<c, k>>
    <3>0. Len(seen'[c]) + 1..Sent(c)' = Len(seen[c]) + 2..Sent(c)
      BY <1>4, <1>8, <1>10
    <3> SUFFICES ASSUME NEW k \in Len(seen[c]) + 2..Sent(c)
                 PROVE  \E i \in 1..Len(output') : output'[i] = <<c, k>>
      BY <3>0
    <3>1. k \in Len(seen[c]) + 1..Sent(c) /\ k # n
      BY <1>4, <1>5, <1>7
    <3>2. PICK i \in 1..Len(output) : output[i] = <<c, k>>
      BY <1>6, <3>1 DEF LineInv
    <3>3. i # 1
      BY <1>3, <3>1, <3>2
    <3>4. i - 1 \in 1..Len(output') /\ output'[i - 1] = output[i]
      BY <1>2, <3>3
    <3> QED
      BY <3>2, <3>4
  <2>3. Len(seen'[c]) <= Sent(c)'
    BY <1>4, <1>7, <1>8, <1>10
  <2>4. \A i \in 1..Len(seen'[c]) : seen'[c][i] = i
    <3> SUFFICES ASSUME NEW i \in 1..Len(seen'[c])
                 PROVE  seen'[c][i] = i
      OBVIOUS
    <3>1. CASE i \in 1..Len(seen[c])
      BY <1>6, <1>8, <3>1 DEF LineInv
    <3>2. CASE i = Len(seen[c]) + 1
      BY <1>7, <1>8, <3>2
    <3> QED
      BY <1>4, <1>8, <3>1, <3>2
  <2> QED
    BY <1>1, <1>3, <1>6, <1>10, <2>1, <2>2, <2>3, <2>4 DEF LineInv
<1>13. \A k \in Command \ {c} : LineInv(k)'
  <2> SUFFICES ASSUME NEW k \in Command \ {c}
               PROVE  LineInv(k)'
    OBVIOUS
  <2>1. seen'[k] = seen[k]
    BY <1>1, <1>3 DEF ProcessTypeOK
  <2>2. Sent(k)' = Sent(k) /\ LineInv(k)
    BY <1>10 DEF LinesInv
  <2>3. \A i \in 1..Len(output') : output'[i][1] = k =>
          Len(seen[k]) < output'[i][2] /\ output'[i][2] <= Sent(k)
    BY <1>11, <2>2 DEF LineInv
  <2>4. \A m \in Len(seen[k]) + 1..Sent(k) : \E i \in 1..Len(output') : output'[i] = <<k, m>>
    <3> SUFFICES ASSUME NEW m \in Len(seen[k]) + 1..Sent(k)
                 PROVE  \E i \in 1..Len(output') : output'[i] = <<k, m>>
      OBVIOUS
    <3>1. PICK i \in 1..Len(output) : output[i] = <<k, m>>
      BY <2>2 DEF LineInv
    <3>2. i # 1
      BY <1>3, <3>1
    <3>3. i - 1 \in 1..Len(output') /\ output'[i - 1] = output[i]
      BY <1>2, <3>2
    <3> QED
      BY <3>1, <3>3
  <2> QED
    BY <1>1, <2>1, <2>2, <2>3, <2>4 DEF LineInv
<1>14. OutputInv'
  <2> SUFFICES ASSUME NEW i \in 1..Len(output'), NEW k \in 1..Len(output'),
                      i < k, output'[i][1] = output'[k][1]
               PROVE  output'[i][2] < output'[k][2]
    BY DEF OutputInv
  <2>1. i + 1 < k + 1
    OBVIOUS
  <2> QED
    BY <1>6, <1>11, <2>1 DEF OutputInv
<1> QED
  BY <1>9, <1>12, <1>13, <1>14 DEF LinesInv

LEMMA LinesInductive == LinesInv /\ [Next]_vars => LinesInv'
BY CallerKeepsLines, QuietKeepsLines, ChildWriteKeepsLines, DrainReadKeepsLines,
   DrainSendKeepsLines, ReceiveKeepsLines
   DEF Next, Child, Drain

\* Whatever is killed, closed or started again, the caller receives of each
\* command the first lines it wrote, in order, once each; and no channel or
\* pipe holds more than it can.
THEOREM LinesAreInOrder == Spec => []LinesInOrder
<1>1. LinesInv => LinesInOrder
  <2> SUFFICES ASSUME LinesInv, NEW c \in Command
               PROVE  /\ Len(seen[c]) <= written[c]
                      /\ \A i \in 1..Len(seen[c]) : seen[c][i] = i
    BY DEF LinesInv, LinesInOrder
  <2>1. /\ written[c] \in Nat /\ Len(pipe[c]) \in Nat /\ Len(buffer[c]) \in Nat
        /\ Len(seen[c]) \in Nat
    BY LinesAreCounted DEF LinesInv
  <2>2. Len(seen[c]) <= written[c] - Len(pipe[c]) - Len(buffer[c])
    BY DEF LinesInv, LineInv, Sent
  <2>3. Len(seen[c]) <= written[c]
    BY <2>1, <2>2
  <2> QED
    BY <2>3 DEF LinesInv, LineInv
<1> QED
  BY <1>1, LinesInitially, LinesInductive, PTL DEF Spec

-----------------------------------------------------------------------------
\* The state.

LEMMA WaitersInitially == Init => WaiterInv
  BY ProcessAssumption DEF Init, WaiterInv, Command

\* The part of WaiterInv about one command.
CommandInv(c) ==
  /\ c > current \/ (c = current /\ Starting) => waiter[c] = "none" /\ child[c] = "none"
  /\ ~overlap /\ child[c] = "alive" => waiter[c] \in {"begin", "wait"}
  /\ ~overlap /\ waiter[c] = "wait" => cmd[c] = c
  /\ ~overlap /\ c < current => waiter[c] \notin {"begin", "wait", "clear"}
  /\ c \in reported \/ (\E i \in 1..Len(done) : done[i] = c) => waiter[c] = "gone"

LEMMA StartKeepsWaiters ==
  ASSUME ProcessTypeOK, WaiterInv, Start
  PROVE  WaiterInv'
<1>1. /\ current' = current + 1 /\ current \in Nat /\ current' \in Command
      /\ state # "Starting" /\ state' = "Starting"
      /\ overlap' = (overlap \/ state = "Running")
      /\ UNCHANGED <<done, reported, child, waiter, cmd>>
      /\ state \in {"NotRunning", "Running"}
  <2>1. /\ current' = current + 1 /\ current < MaxStart
        /\ state # "Starting" /\ state' = "Starting"
        /\ overlap' = (overlap \/ state = "Running")
        /\ UNCHANGED <<done, reported, child, waiter, cmd>>
    BY DEF Start, waiterVars, LockFree, Starting
  <2>2. current \in Nat
    BY ProcessAssumption DEF ProcessTypeOK
  <2>3. state \in {"NotRunning", "Running"}
    BY <2>1 DEF ProcessTypeOK
  <2>4. current' \in Command
    BY <2>1, <2>2, ProcessAssumption DEF Command
  <2> QED
    BY <2>1, <2>2, <2>3, <2>4
<1>2. ~overlap' => ~overlap /\ state = "NotRunning"
  BY <1>1
<1>3. ASSUME NEW c \in Command
      PROVE  CommandInv(c)'
  <2>1. CommandInv(c)
    BY DEF WaiterInv, CommandInv
  <2>2. c \in Nat /\ c >= 1 /\ (c > current' \/ c = current' => c > current)
        /\ (c < current' => c < current \/ (c = current /\ current > 0))
    BY <1>1 DEF Command
  <2>3. ~overlap' /\ c < current' => waiter[c] \notin {"begin", "wait", "clear"}
    BY <1>2, <2>2 DEF WaiterInv
  <2> QED
    BY <1>1, <1>2, <2>1, <2>2, <2>3 DEF CommandInv
<1>4. waiter'[current'] = "none"
  BY <1>1 DEF WaiterInv
<1> QED
  BY <1>3, <1>4 DEF WaiterInv, CommandInv

LEMMA SuccessKeepsWaiters ==
  ASSUME ProcessTypeOK, WaiterInv, StartSucceeds \/ StartFails
  PROVE  WaiterInv'
<1>1. /\ Starting /\ state' # "Starting" /\ UNCHANGED <<current, overlap, done, reported, cmd>>
      /\ \A c \in Command : c # current => waiter'[c] = waiter[c] /\ child'[c] = child[c]
      /\ current \in Command =>
           \/ waiter'[current] = "begin" /\ child'[current] = "alive" /\ state' = "Running"
           \/ UNCHANGED <<waiter, child>>
  BY DEF StartSucceeds, StartFails, ProcessTypeOK, childVars, waiterVars, callerVars
<1>2. current \in Command => waiter[current] = "none" /\ child[current] = "none"
  BY <1>1 DEF WaiterInv
<1>3. current > 0 => current \in Command
  BY ProcessAssumption DEF ProcessTypeOK, Command
<1>4. ASSUME NEW c \in Command
      PROVE  CommandInv(c)'
  <2>1. CommandInv(c) /\ c \in Nat /\ current \in Nat
    BY ProcessAssumption DEF WaiterInv, CommandInv, Command, ProcessTypeOK
  <2>2. CASE c = current
    BY <1>1, <1>2, <2>1, <2>2 DEF CommandInv, Starting
  <2>3. CASE c # current
    BY <1>1, <2>1, <2>3 DEF CommandInv
  <2> QED
    BY <2>2, <2>3
<1>5. current > 0 =>
        /\ ~overlap /\ waiter'[current] \in {"begin", "wait", "clear"} => state' = "Running"
        /\ waiter'[current] \notin {"send", "gone"}
  BY <1>1, <1>2, <1>3
<1> QED
  BY <1>1, <1>4, <1>5 DEF WaiterInv, CommandInv

\* Steps after which the waiters, the state and the results are where they were.
LEMMA WaitersStay ==
  ASSUME WaiterInv, UNCHANGED <<state, current, waiter, cmd, overlap>>,
         \A c \in Command : child'[c] = "alive" => child[c] = "alive",
         \A c \in Command : child[c] = "none" => child'[c] = "none",
         \A c \in Command : c \in reported' \/ (\E i \in 1..Len(done') : done'[i] = c) =>
                            c \in reported \/ (\E i \in 1..Len(done) : done[i] = c)
  PROVE  WaiterInv'
BY DEF WaiterInv, Starting

LEMMA OthersKeepWaiters ==
  ASSUME ProcessTypeOK, WaiterInv,
         \/ WriteBegin \/ WriteEnd \/ KillBegin \/ KillEnd \/ ReceiveOutput \/ ReceiveDone
         \/ \E c \in Command : Child(c) \/ Drain(c)
         \/ UNCHANGED vars
  PROVE  WaiterInv'
<1> USE DEF lockVars, childVars, drainVars, waiterVars, callerVars
<1>1. CASE WriteBegin \/ WriteEnd \/ KillBegin \/ ReceiveOutput \/ UNCHANGED vars
  BY <1>1, WaitersStay DEF WriteBegin, WriteEnd, KillBegin, ReceiveOutput, vars
<1>2. CASE KillEnd
  BY <1>2, WaitersStay DEF KillEnd, ProcessTypeOK
<1>3. CASE ReceiveDone
  <2>1. /\ done # <<>> /\ done \in Seq(Command) /\ done' = Tail(done)
        /\ reported' = reported \cup {Head(done)}
    BY <1>3 DEF ReceiveDone, ProcessTypeOK
  <2>2. /\ Head(done) = done[1] /\ Len(done) \in Nat /\ Len(done) >= 1
        /\ Len(done') = Len(done) - 1
        /\ \A i \in 1..Len(done) - 1 : done'[i] = done[i + 1]
    BY <2>1, TailFacts
  <2>3. 1 \in 1..Len(done) /\ \A i \in 1..Len(done') : i + 1 \in 1..Len(done) /\ done'[i] = done[i + 1]
    BY <2>2
  <2> QED
    BY <1>3, <2>1, <2>2, <2>3, WaitersStay DEF ReceiveDone
<1>4. ASSUME NEW c \in Command, Child(c)
      PROVE  WaiterInv'
  BY <1>4, WaitersStay DEF Child, ChildWrite, ChildRead, ChildExit, ProcessTypeOK
<1>5. ASSUME NEW c \in Command, Drain(c)
      PROVE  WaiterInv'
  BY <1>5, WaitersStay DEF Drain, DrainRead, DrainEnd, DrainSend
<1> QED
  BY <1>1, <1>2, <1>3, <1>4, <1>5

LEMMA WaiterKeepsWaiters ==
  ASSUME ProcessTypeOK, WaiterInv, NEW c \in Command, Waiter(c)
  PROVE  WaiterInv'
<1> USE DEF lockVars, childVars, drainVars, waiterVars, callerVars
<1>1. /\ current \in Nat /\ current <= MaxStart /\ waiter[c] \notin {"none", "gone"}
      /\ UNCHANGED <<current, child, overlap, reported>>
      /\ \A k \in Command \ {c} : waiter'[k] = waiter[k] /\ cmd'[k] = cmd[k]
  <2>1. current \in Nat /\ current <= MaxStart
    BY ProcessAssumption DEF ProcessTypeOK
  <2>2. /\ waiter[c] \notin {"none", "gone"} /\ UNCHANGED <<current, child, overlap, reported>>
        /\ \E w : waiter' = [waiter EXCEPT ![c] = w]
        /\ \E w : cmd' = [cmd EXCEPT ![c] = w] \/ cmd' = cmd
    BY DEF Waiter, WaiterBegin, WaiterWait, WaiterClear, WaiterSend
  <2> QED
    BY <2>1, <2>2 DEF ProcessTypeOK
<1>2. /\ c <= current /\ c >= 1 /\ c \in Nat /\ ~(c = current /\ Starting)
      /\ c \notin reported /\ (\A i \in 1..Len(done) : done[i] # c)
  BY <1>1, ProcessAssumption DEF WaiterInv, Command
<1>3. current \in Command /\ CommandInv(c)
  BY <1>1, <1>2 DEF Command, WaiterInv, CommandInv
<1>4. CASE WaiterBegin(c)
  <2>1. /\ waiter[c] = "begin" /\ waiter'[c] = "wait" /\ cmd'[c] = current
        /\ UNCHANGED <<state, done>>
    BY <1>4 DEF WaiterBegin, ProcessTypeOK
  <2>2. ~overlap => c = current
    BY <1>1, <1>2, <1>3, <2>1 DEF CommandInv
  <2>3. CommandInv(c)'
    BY <1>1, <1>2, <1>3, <2>1, <2>2 DEF CommandInv, Starting
  <2>4. \A k \in Command \ {c} : CommandInv(k)'
    BY <1>1, <2>1 DEF WaiterInv, CommandInv, Starting
  <2>5. /\ ~overlap /\ waiter'[current] \in {"begin", "wait", "clear"} => state = "Running"
        /\ waiter'[current] \in {"send", "gone"} => state = "NotRunning"
    BY <1>1, <1>2, <1>3, <2>1 DEF WaiterInv
  <2> QED
    BY <1>1, <2>1, <2>3, <2>4, <2>5 DEF WaiterInv, CommandInv
<1>5. CASE WaiterWait(c)
  <2>1. /\ waiter[c] = "wait" /\ waiter'[c] = "clear" /\ child[cmd[c]] # "alive"
        /\ UNCHANGED <<state, done, cmd>>
    BY <1>5 DEF WaiterWait, ProcessTypeOK
  <2>2. ~overlap => child[c] # "alive" /\ c = current
    BY <1>1, <1>2, <1>3, <2>1 DEF CommandInv
  <2>3. CommandInv(c)'
    BY <1>1, <1>2, <1>3, <2>1, <2>2 DEF CommandInv, Starting
  <2>4. \A k \in Command \ {c} : CommandInv(k)'
    BY <1>1, <2>1 DEF WaiterInv, CommandInv, Starting
  <2>5. /\ ~overlap /\ waiter'[current] \in {"begin", "wait", "clear"} => state = "Running"
        /\ waiter'[current] \in {"send", "gone"} => state = "NotRunning"
    BY <1>1, <1>2, <1>3, <2>1 DEF WaiterInv
  <2> QED
    BY <1>1, <2>1, <2>3, <2>4, <2>5 DEF WaiterInv, CommandInv
<1>6. CASE WaiterClear(c)
  <2>1. /\ waiter[c] = "clear" /\ waiter'[c] = "send" /\ state' = "NotRunning"
        /\ UNCHANGED <<done, cmd>> /\ ~Starting
    BY <1>6 DEF WaiterClear, ProcessTypeOK, LockFree
  <2>2. ~overlap => c = current /\ child[c] # "alive"
    BY <1>1, <1>2, <1>3, <2>1 DEF CommandInv
  <2>3. CommandInv(c)'
    BY <1>1, <1>2, <1>3, <2>1, <2>2 DEF CommandInv, Starting
  <2>4. \A k \in Command \ {c} : CommandInv(k)'
    BY <1>1, <2>1 DEF WaiterInv, CommandInv, Starting
  <2>5. ~overlap => waiter'[current] = "send"
    BY <2>1, <2>2
  <2> QED
    BY <1>1, <2>1, <2>3, <2>4, <2>5 DEF WaiterInv, CommandInv
<1>7. CASE WaiterSend(c)
  <2>1. /\ waiter[c] = "send" /\ waiter'[c] = "gone" /\ UNCHANGED <<state, cmd>>
        /\ done' = Append(done, c) /\ done \in Seq(Command)
    BY <1>7 DEF WaiterSend, ProcessTypeOK
  <2>2. \A k \in Command : (\E i \in 1..Len(done') : done'[i] = k) =>
                             k = c \/ (\E i \in 1..Len(done) : done[i] = k)
    BY <2>1, AppendFacts
  <2>3. CommandInv(c)'
    BY <1>1, <1>2, <1>3, <2>1 DEF CommandInv, Starting
  <2>4. \A k \in Command \ {c} : CommandInv(k)'
    BY <1>1, <2>1, <2>2 DEF WaiterInv, CommandInv, Starting
  <2>5. /\ ~overlap /\ waiter'[current] \in {"begin", "wait", "clear"} => state = "Running"
        /\ waiter'[current] \in {"send", "gone"} => state = "NotRunning"
    BY <1>1, <1>2, <1>3, <2>1 DEF WaiterInv
  <2> QED
    BY <1>1, <2>1, <2>3, <2>4, <2>5 DEF WaiterInv, CommandInv
<1> QED
  BY <1>4, <1>5, <1>6, <1>7 DEF Waiter

LEMMA WaitersInductive == LinesInv /\ WaiterInv /\ [Next]_vars => WaiterInv'
BY StartKeepsWaiters, SuccessKeepsWaiters, OthersKeepWaiters, WaiterKeepsWaiters DEF LinesInv, Next

\* Who Starts a process only when its state says that it is not running can rely
\* on the state; and when the result of the last Start is out, the state is
\* cleared, however many waiters there are.
THEOREM StateIsReliable == Spec => []StateIsTrue
<1>1. LinesInv /\ WaiterInv => StateIsTrue
  <2> SUFFICES ASSUME LinesInv, WaiterInv
               PROVE  StateIsTrue
    OBVIOUS
  <2>1. current > 0 => current \in Command
    BY ProcessAssumption DEF LinesInv, ProcessTypeOK, Command
  <2>2. \A c \in reported : c > 0 /\ c \in Command
    BY ProcessAssumption DEF LinesInv, ProcessTypeOK, Command
  <2> QED
    BY <2>1, <2>2 DEF WaiterInv, StateIsTrue
<1> QED
  BY <1>1, LinesInitially, LinesInductive, WaitersInitially, WaitersInductive, PTL DEF Spec
=============================================================================
