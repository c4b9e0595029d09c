------------------------------ MODULE Services ------------------------------
(***************************************************************************)
(* The services of the Go program side by side: the signals with the event *)
(* loop below them, and beside them the reactive properties, the value     *)
(* tree, the undo stack, the permission manager, the shell bridge, the     *)
(* script bridge and the master clock.  As none reads what another writes, *)
(* every behaviour is one of its "subject", while the others stay as they  *)
(* began.                                                                  *)
(***************************************************************************)
EXTENDS SignalSlots, Integers

CONSTANTS
  Caller,                                         \* goroutines of most services
  Values, Last,                                   \* Property
  Key, Subscriber, Capacity, MaxWrites,           \* ValueTree
  Limit, MaxActions,                              \* UndoStack
  Client, Target, deviceID, NoDevice,             \* PermissionManager
  Platform, Hooks,                                \* ShellBridge
  MaxMessages, MaxDepth,                          \* JSBridge
  Bpm, StepsPerBar, StepsPerBeat, TickCap, MaxStart  \* MasterClock

VARIABLES
  subject,
  content, followers, binding, todo, bind, unsettled,
  params, subscribers, channel, set, writes, since, told, dropped, overlapped,
  actions, redoPool, mu, at, pushed, reverted,
  locks, deleting, crossed, held,
  activePlatforms, call, balance, last, raced,
  nextID, Queue, AutoDispatch, calls, dispatched,
  bpm, isRunning, gen, ticks, heart, watch, tempo, step, sinceBeat, panicked

P == INSTANCE Property WITH value <- content, listeners <- followers, raced <- unsettled
V == INSTANCE ValueTree WITH listeners <- subscribers
U == INSTANCE UndoStack WITH User <- Caller
D == INSTANCE PermissionManager
S == INSTANCE ShellBridge
B == INSTANCE JSBridge
C == INSTANCE MasterClock WITH pc <- heart

ASSUME ServicesAssumption == D!PermissionAssumption /\ P!PropertyAssumption

pvars == <<content, followers, binding, todo, bind, unsettled>>
vvars == <<params, subscribers, channel, set, writes, since, told, dropped, overlapped>>
uvars == <<actions, redoPool, mu, at, pushed, reverted>>
dvars == <<locks, deleting, crossed, held>>
svars == <<activePlatforms, call, balance, last, raced>>
bvars == <<nextID, Queue, AutoDispatch, calls, dispatched>>
cvars == <<bpm, isRunning, gen, ticks, heart, watch, tempo, step, sinceBeat, panicked>>
gvars == allVars

\* The values that a behaviour of another subject would only multiply are fixed.
AnyInit ==
  /\ subject \in {"property", "tree", "undo", "permission", "shell", "bridge", "clock", "signals"}
  /\ P!Init /\ V!Init /\ U!Init /\ D!Init /\ S!Init /\ B!Init /\ C!Init /\ SignalInit
  /\ subject = "clock" \/ bpm = CHOOSE b \in Bpm : b > 0
  /\ subject = "signals" \/ value = CHOOSE v \in Value : TRUE

AnyStep(name, action) == subject = name /\ action /\ UNCHANGED subject

AnyNext ==
  \/ AnyStep("property", P!Next) /\ UNCHANGED <<vvars, uvars, dvars, svars, bvars, cvars, gvars>>
  \/ AnyStep("tree", V!Next) /\ UNCHANGED <<pvars, uvars, dvars, svars, bvars, cvars, gvars>>
  \/ AnyStep("undo", U!Next) /\ UNCHANGED <<pvars, vvars, dvars, svars, bvars, cvars, gvars>>
  \/ AnyStep("permission", D!Next) /\ UNCHANGED <<pvars, vvars, uvars, svars, bvars, cvars, gvars>>
  \/ AnyStep("shell", S!Next) /\ UNCHANGED <<pvars, vvars, uvars, dvars, bvars, cvars, gvars>>
  \/ AnyStep("bridge", B!Next) /\ UNCHANGED <<pvars, vvars, uvars, dvars, svars, cvars, gvars>>
  \/ AnyStep("clock", C!Next) /\ UNCHANGED <<pvars, vvars, uvars, dvars, svars, bvars, gvars>>
  \/ AnyStep("signals", SignalNext) /\ UNCHANGED <<pvars, vvars, uvars, dvars, svars, bvars, cvars>>

AnyFairSpec ==
  /\ AnyInit
  /\ [][AnyNext]_<<subject, pvars, vvars, uvars, dvars, svars, bvars, cvars, gvars>>
  /\ C!Fairness

-----------------------------------------------------------------------------
\* A bound property agrees with its source (property.go).
BoundAgrees == P!BoundAgrees

\* Every change reaches every subscriber with room (value_tree.go).
SubscribersAreTold == V!SubscribersAreTold

\* The Undo of an action runs once (undo_stack.go).
UndoneOnce == U!UndoneOnce

\* A granted lock stays its device's until that device unlocks, unless an Unlock was
\* crossed by another call of its own device (permission_manager.go).
GrantedIsKept == D!GrantedIsKept

\* Hooks tell of every attach and detach (shell_integration.go).
HooksMatchPlatforms == S!HooksMatchPlatforms

\* No message of the script bridge is lost or handled twice (webview.go).
EveryMessageOnce == B!EveryMessageOnce

\* No panic but for a tempo of zero or below, and a beat every four steps
\* (master_clock.go).
ClockIsSound == C!ClockIsSound

\* A stopped clock falls silent (master_clock.go).
StopSilences == C!StopSilences
=============================================================================
