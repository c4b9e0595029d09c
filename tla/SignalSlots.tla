----------------------------- MODULE SignalSlots -----------------------------
(***************************************************************************)
(* A signal of the Go kernel (internal/ui/signals.go) on top of the event  *)
(* loop, and the way every notifying setter of the kernel uses it: change  *)
(* a field under a mutex, release the mutex, Emit.  SetState is the body   *)
(* shared by Synthesizer.SetPolyphony, Sequencer.SetBPM, Play and Stop,    *)
(* MasterClock.SetBpm, AudioPlayer.SetSource and MidiHandler's             *)
(* SetCurrentDevice, which differ in the type of the field only.           *)
(*                                                                         *)
(* Emissions are numbered in the order in which the field was changed.     *)
(* Emit is asynchronous: it posts one task per slot, and the loop runs     *)
(* them later.  Go's RWMutex lets several Emits overlap; Connect takes the *)
(* write lock: it waits until none is under way, and none begins then.     *)
(***************************************************************************)
EXTENDS EventLoop, FiniteSets

CONSTANTS
  Setter,   \* goroutines that call the setter; a runner does inside a task
  Slot,     \* functions that may be connected, each at most once
  Value,    \* values of the field
  MaxEmit   \* bound: number of changes of the field in a behaviour

\* Setters are goroutines of the loop, and MaxPost >= MaxEmit * Cardinality(Slot).

VARIABLES
  value,      \* the field the setter guards with its mutex
  listeners,  \* Signal.listeners
  connecting, \* the slot whose Connect has asked for the write lock, if any
  stage,      \* where each setter stands: "out", "set" or "emit"
  arg,        \* arg[g]: the number of the emission g is making
  next,       \* next[g]: the listener the range loop of g's Emit posts next
  emissions,  \* history: value, setter and listeners of every emission, and whether
              \* no other setter was between its change and the end of its Emit
  closure,    \* closure[k]: the slot and the emission that task k captured
  heard       \* history: heard[s], the emissions slot s was called with

signalVars == <<value, listeners, connecting, stage, arg, next, emissions, closure, heard>>
allVars == <<vars, signalVars>>

Emission == 1..MaxEmit

SignalInit ==
  /\ Init
  /\ value \in Value
  /\ listeners = <<>>
  /\ connecting = {}
  /\ stage = [g \in Setter |-> "out"]
  /\ arg = [g \in Setter |-> 0]
  /\ next = [g \in Setter |-> 1]
  /\ emissions = <<>>
  /\ closure = <<>>
  /\ heard = [s \in Slot |-> <<>>]

-----------------------------------------------------------------------------
\* Connect(slot), on any goroutine: the write lock keeps new Emits out ...
ConnectBegin(s) ==
  /\ connecting = {}
  /\ s \notin Elems(listeners)
  /\ connecting' = {s}
  /\ UNCHANGED <<vars, value, listeners, stage, arg, next, emissions, closure, heard>>

\* Fault: Connect appends without waiting for the Emits.
ConnectUnlocked(s) ==
  /\ s \in connecting
  /\ listeners' = Append(listeners, s)
  /\ connecting' = {}
  /\ UNCHANGED <<vars, value, stage, arg, next, emissions, closure, heard>>

\* ... and waits for those under way.
Connect(s) ==
  /\ s \in connecting
  /\ \A g \in Setter : stage[g] # "emit"
  /\ listeners' = Append(listeners, s)
  /\ connecting' = {}
  /\ UNCHANGED <<vars, value, stage, arg, next, emissions, closure, heard>>

-----------------------------------------------------------------------------
\* The setter, under its mutex: it returns without an Emit when the value is
\* the one the field has.
SetState(g, v) ==
  /\ stage[g] = "out"
  /\ MayPost(g)
  /\ v # value
  /\ Len(emissions) < MaxEmit
  /\ value' = v
  /\ emissions' = Append(emissions, [value |-> v, by |-> g, slots |-> {},
                                     alone |-> \A h \in Setter : stage[h] = "out"])
  /\ arg' = [arg EXCEPT ![g] = Len(emissions) + 1]
  /\ stage' = [stage EXCEPT ![g] = "set"]
  /\ UNCHANGED <<vars, listeners, connecting, next, closure, heard>>

\* Emit(args): the read lock ...
EmitBegin(g) ==
  /\ stage[g] = "set"
  /\ connecting = {}
  /\ stage' = [stage EXCEPT ![g] = "emit"]
  /\ next' = [next EXCEPT ![g] = 1]
  /\ emissions' = [emissions EXCEPT ![arg[g]].slots = Elems(listeners)]
  /\ UNCHANGED <<vars, value, listeners, connecting, arg, closure, heard>>

EmitPost(g) ==
  /\ stage[g] = "emit"
  /\ next[g] <= Len(listeners)
  /\ PostAppend(g)
  /\ closure' = Append(closure, [slot |-> listeners[next[g]], emission |-> arg[g]])
  /\ next' = [next EXCEPT ![g] = @ + 1]
  /\ UNCHANGED <<value, listeners, connecting, stage, arg, emissions, heard>>

EmitWakeup(g) ==
  /\ PostWakeup(g)
  /\ UNCHANGED signalVars

\* ... and the unlock.
EmitEnd(g) ==
  /\ stage[g] = "emit"
  /\ next[g] = Len(listeners) + 1
  /\ g \notin sending
  /\ stage' = [stage EXCEPT ![g] = "out"]
  /\ UNCHANGED <<vars, value, listeners, connecting, arg, next, emissions, closure, heard>>

-----------------------------------------------------------------------------
\* fn(a...): the task returns once a setter the slot called has returned.
SlotReturn(r) ==
  LET call == closure[Head(batch[r])]
  IN  /\ r \in Setter => stage[r] = "out"
      /\ TaskEnd(r)
      /\ heard' = [heard EXCEPT ![call.slot] = Append(@, call.emission)]
      /\ UNCHANGED <<value, listeners, connecting, stage, arg, next, emissions, closure>>

LoopStep(r) ==
  /\ \/ RunReceive(r) \/ RunDrain(r) \/ TaskBegin(r) \/ BatchEnd(r)
     \/ RunEnter(r) \/ RunQuit(r)
  /\ UNCHANGED signalVars

StopLoop == Stop /\ UNCHANGED signalVars

Emit(g) == EmitBegin(g) \/ EmitPost(g) \/ EmitWakeup(g) \/ EmitEnd(g)

SignalNext ==
  \/ \E s \in Slot : ConnectBegin(s) \/ Connect(s)
  \/ \E g \in Setter : Emit(g) \/ \E v \in Value : SetState(g, v)
  \/ \E r \in Runner : LoopStep(r) \/ SlotReturn(r)
  \/ StopLoop

SignalSpec == SignalInit /\ [][SignalNext]_allVars

-----------------------------------------------------------------------------
\* Properties

\* No Emit is under way and every task posted has been executed.
Quiet ==
  /\ \A g \in Setter : stage[g] = "out"
  /\ queue = <<>>
  /\ \A r \in Runner : batch[r] = <<>>

Occurs(e, seq) == Cardinality({i \in 1..Len(seq) : seq[i] = e})

Position(s) == CHOOSE i \in 1..Len(listeners) : listeners[i] = s

\* Whatever is connected and emitted meanwhile, the slots hear what was emitted.
\* The calls that come from one goroutine are made in the order of its
\* emissions, and for one emission in the order of connection.  Once things are
\* quiet, each emission has called exactly the slots that were connected when
\* Emit took the read lock, each of them once, and the last thing a slot heard
\* is the value the field has.  That holds if no other setter was on its way when
\* the field last changed; else it need not, because the field changes under the
\* mutex and the Emits are made after it was released.  And Emit "prevents
\* blocking" (signals.go:32), whether or not a goroutine runs the loop, and
\* whether or not a slot called it: nothing holds it up but a Connect that waits
\* for other Emits, and those end.
SlotsHearEmissions ==
  /\ \A g \in Setter :
       stage[g] # "out" => ENABLED Emit(g) \/ (stage[g] = "set" /\ connecting # {})
  /\ \A i, j \in 1..Len(done) :
       LET a == closure[done[i]]
           b == closure[done[j]]
       IN  i < j /\ emissions[a.emission].by = emissions[b.emission].by
             => \/ a.emission < b.emission
                \/ a.emission = b.emission /\ Position(a.slot) < Position(b.slot)
  /\ Quiet => \A s \in Slot :
       /\ \A e \in 1..Len(emissions) :
            Occurs(e, heard[s]) = IF s \in emissions[e].slots THEN 1 ELSE 0
       /\ heard[s] # <<>> /\ emissions[Len(emissions)].alone =>
            emissions[heard[s][Len(heard[s])]].value = value
=============================================================================
