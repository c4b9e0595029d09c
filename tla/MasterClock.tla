----------------------------- MODULE MasterClock -----------------------------
(***************************************************************************)
(* The master clock of the Go audio engine, internal/audio/master_clock.go *)
(* Start, Stop and SetBpm are called on any goroutine; every Start spawns  *)
(* a heartbeat goroutine, numbered like the stop channel that Start made.  *)
(*                                                                         *)
(* A heartbeat reads mc.stopSignal without the mutex whenever it enters    *)
(* its select, and then waits on the channel it read.  Each such read      *)
(* follows a critical section of the same goroutine (the one that reads    *)
(* mc.BPM), so it sees every Start up to there, and what it may see of     *)
(* later ones is covered by the time at which EnterSelect is taken.        *)
(***************************************************************************)
EXTENDS Integers

CONSTANTS
  Bpm,          \* tempi that SetBpm is called with
  StepsPerBar,  \* 16 in the code
  StepsPerBeat, \* 4 in the code
  TickCap,      \* capacity of TickChan, 100 in the code
  MaxStart      \* bound: number of Starts in a behaviour

VARIABLES
  bpm,        \* mc.BPM
  isRunning,  \* mc.IsRunning
  gen,        \* the number of the channel in mc.stopSignal, 0 when it is nil
  ticks,      \* how many steps wait in mc.TickChan
  pc,         \* where each heartbeat stands
  watch,      \* watch[h]: the channel h's select waits on
  tempo,      \* tempo[h]: currentBpm
  step,       \* step[h]
  sinceBeat,  \* history: steps emitted since the last Beat, or since Start
  panicked    \* has a goroutine panicked, and the program with it?

clockVars == <<bpm, isRunning, gen>>
heartVars == <<pc, watch, tempo, step>>
vars == <<clockVars, ticks, heartVars, sinceBeat, panicked>>

Heart == 1..MaxStart
HeartPC == {"none", "spawned", "enter", "select", "step", "beat", "update", "gone"}

\* Fault: Stop does not close the channel.
ClosedByStart(c) == c < gen

\* Stop closes the channel of the last Start, and no other.
Closed(c) == c < gen \/ ~isRunning

ClockTypeOK ==
  /\ bpm \in Bpm
  /\ isRunning \in BOOLEAN
  /\ gen \in 0..MaxStart
  /\ ticks \in 0..TickCap
  /\ pc \in [Heart -> HeartPC]
  /\ watch \in [Heart -> 0..MaxStart]
  /\ tempo \in [Heart -> Bpm \cup {0}]
  /\ step \in [Heart -> 0..(StepsPerBar - 1)]
  /\ sinceBeat \in 0..(StepsPerBeat + 1)
  /\ panicked \in BOOLEAN

Init ==
  /\ bpm \in {b \in Bpm : b > 0}
  /\ isRunning = FALSE
  /\ gen = 0
  /\ ticks = 0
  /\ pc = [h \in Heart |-> "none"]
  /\ watch = [h \in Heart |-> 0]
  /\ tempo = [h \in Heart |-> 0]
  /\ step = [h \in Heart |-> 0]
  /\ sinceBeat = 0
  /\ panicked = FALSE

-----------------------------------------------------------------------------
\* The methods.  Their Emits post to the event loop and change nothing here.

SetBpm(b) ==
  /\ bpm # b
  /\ bpm' = b
  /\ UNCHANGED <<isRunning, gen, ticks, heartVars, sinceBeat, panicked>>

Start ==
  /\ ~isRunning
  /\ gen < MaxStart
  /\ isRunning' = TRUE
  /\ gen' = gen + 1
  /\ pc' = [pc EXCEPT ![gen + 1] = "spawned"]
  /\ sinceBeat' = StepsPerBeat - 1
  /\ UNCHANGED <<bpm, ticks, watch, tempo, step, panicked>>

\* Fault: Stop closes the channel without looking at IsRunning.
StopAgain ==
  /\ panicked' = (gen = 0 \/ Closed(gen))
  /\ isRunning' = FALSE
  /\ UNCHANGED <<bpm, gen, ticks, heartVars, sinceBeat>>

\* close panics on a nil or closed channel; isRunning excludes both.
Stop ==
  /\ isRunning
  /\ panicked' = (gen = 0 \/ Closed(gen))
  /\ isRunning' = FALSE
  /\ UNCHANGED <<bpm, gen, ticks, heartVars, sinceBeat>>

-----------------------------------------------------------------------------
\* The heartbeat goroutine.

Goto(h, from, to) == pc[h] = from /\ pc' = [pc EXCEPT ![h] = to]

\* A ticker that is given the tempo b panics unless the interval is positive; that
\* of 0 is infinite, and what it is converted to depends on the machine.
SetTicker(b) ==
  \/ b <= 0 /\ panicked' = TRUE
  \/ b >= 0 /\ panicked' = FALSE

\* The first read of mc.BPM, and NewTicker.
ReadTempo(h) ==
  /\ Goto(h, "spawned", "enter")
  /\ tempo' = [tempo EXCEPT ![h] = bpm]
  /\ SetTicker(bpm)
  /\ UNCHANGED <<clockVars, ticks, watch, step, sinceBeat>>

\* select evaluates mc.stopSignal once, when it is entered.
EnterSelect(h) ==
  /\ Goto(h, "enter", "select")
  /\ watch' = [watch EXCEPT ![h] = gen]
  /\ UNCHANGED <<clockVars, ticks, tempo, step, sinceBeat, panicked>>

\* case <-ticker.C, and the non-blocking send to TickChan.
Tick(h) ==
  /\ Goto(h, "select", "step")
  /\ ticks' = IF ticks < TickCap THEN ticks + 1 ELSE ticks
  /\ UNCHANGED <<clockVars, watch, tempo, step, sinceBeat, panicked>>

\* SixteenthStep.Emit(step).  The history stops counting past a beat.
EmitStep(h) ==
  /\ Goto(h, "step", IF step[h] % StepsPerBeat = 0 THEN "beat" ELSE "update")
  /\ sinceBeat' = IF sinceBeat > StepsPerBeat THEN sinceBeat ELSE sinceBeat + 1
  /\ UNCHANGED <<clockVars, ticks, watch, tempo, step, panicked>>

\* Beat.Emit(beatCount)
EmitBeat(h) ==
  /\ Goto(h, "beat", "update")
  /\ sinceBeat' = 0
  /\ UNCHANGED <<clockVars, ticks, watch, tempo, step, panicked>>

\* The next step, and the new interval if the tempo changed; Reset panics like
\* NewTicker.
Update(h) ==
  /\ Goto(h, "update", "enter")
  /\ step' = [step EXCEPT ![h] = (@ + 1) % StepsPerBar]
  /\ tempo' = [tempo EXCEPT ![h] = bpm]
  /\ IF bpm = tempo[h] THEN panicked' = FALSE ELSE SetTicker(bpm)
  /\ UNCHANGED <<clockVars, ticks, watch, sinceBeat>>

\* case <-mc.stopSignal
Quit(h) ==
  /\ Goto(h, "select", "gone")
  /\ Closed(watch[h])
  /\ UNCHANGED <<clockVars, ticks, watch, tempo, step, sinceBeat, panicked>>

Heartbeat(h) ==
  \/ ReadTempo(h) \/ EnterSelect(h)
  \/ Tick(h) \/ EmitStep(h) \/ EmitBeat(h) \/ Update(h)

\* Whoever reads TickChan takes a step out.
ReceiveTick ==
  /\ ticks > 0
  /\ ticks' = ticks - 1
  /\ UNCHANGED <<clockVars, heartVars, sinceBeat, panicked>>

Next ==
  /\ ~panicked
  /\ \/ \E b \in Bpm : SetBpm(b)
     \/ Start \/ Stop \/ ReceiveTick
     \/ \E h \in Heart : Heartbeat(h) \/ Quit(h)

Spec == Init /\ [][Next]_vars

\* The ticker keeps firing and the heartbeats are scheduled.  A closed channel
\* is taken if the select finds it ready again and again.  Nothing obliges
\* anyone to read TickChan or to call a method.
Fairness == \A h \in Heart : WF_vars(Heartbeat(h)) /\ SF_vars(Quit(h))

FairSpec == Spec /\ Fairness

-----------------------------------------------------------------------------
\* Properties

\* The heartbeat has read the tempo.
Begun(h) == pc[h] \notin {"none", "spawned"}

\* Nobody closes a channel that is nil or closed, in whatever order goroutines call
\* Start, Stop and SetBpm: when the program panics, it is because a heartbeat has
\* taken over a tempo of zero or below, and no heartbeat ticks on with a negative
\* one.  And a Beat comes with every fourth step, counted from Start ("every 4
\* steps (quarter note)", master_clock.go:97), also across the end of a bar.  The
\* last holds as long as the clock is started once: a heartbeat that is inside a
\* tick during a Stop and a Start waits on the new channel and goes on beside the
\* new heartbeat.
ClockIsSound ==
  /\ ClockTypeOK
  /\ panicked => \E h \in Heart : Begun(h) /\ tempo[h] <= 0
  /\ ~panicked => \A h \in Heart : Begun(h) => tempo[h] >= 0
  /\ gen = 1 => \A h \in Heart : pc[h] = "beat" => sinceBeat = StepsPerBeat

\* A stopped clock falls silent, however many heartbeats it has: all of them
\* return, those that outlived an earlier Stop included, unless it is started
\* again or the program panics.
StopSilences ==
  ~isRunning /\ gen > 0 ~>
    isRunning \/ panicked \/ \A h \in Heart : pc[h] \in {"none", "gone"}
=============================================================================
