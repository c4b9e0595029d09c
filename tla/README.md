# A verification of the kernel and the core threading layer

This directory holds TLA+ models of the parts of this repository that are hard
to test: the places where goroutines or threads interleave, where a wakeup can
be lost, a result can arrive late, or a call can come at a moment nobody wrote
a test for. TLC checks each model on small instances; TLAPS proves the central
theorems for every value of the constants.

The repository is a fork of the Qt libraries (`src/`, renamed "bobui") with an
original Go kernel (`internal/`) and C++, Rust, Java and C# counterparts of
parts of that kernel (`BobQ/`, `OmniUI/`). The Go kernel is the fork's own
program; the threading code of the core library is what the C++ side stands on.

## 1. Inventory

### The Go kernel

| component | state it keeps | operations | what makes it hard | what makes it correct |
|---|---|---|---|---|
| Event loop `internal/ui/event_loop.go` | queue, wakeup channel of capacity 1, running flag, quit channel | `Post`, `Run`, `Stop` | append and wakeup are two steps; the wakeup is dropped when the channel is full; `Stop` does not wait for `Run` | no lost wakeup, each task once, in order, the live loop can be stopped |
| Signals `internal/ui/signals.go` and the setters of the audio components | listeners behind a RWMutex; the field behind the setter's mutex | `Connect`, `Emit`, `SetBPM`, `SetPolyphony`, `Play`, ... | the field changes in one critical section and is announced in another; slots emit | each emission reaches the connected slots once, in order; setters do not wait for the loop |
| Master clock `internal/audio/master_clock.go` | BPM, IsRunning, stop channel, TickChan | `SetBpm`, `Start`, `Stop`, the heartbeat | the stop channel is read again at each select, without the mutex | no double close, steady beat, silence after `Stop` |
| Process `internal/kernel/process.go` | state, command, channels Output, Error, Done | `Start`, `Write`, `Kill`, `Terminate`, drains, waiter | three goroutines per command; full pipes and channels | lines in order, a truthful state, every Start answered |
| Reactive property `internal/kernel/property.go` | value, listeners, binding | `Get`, `Set`, `Bind` | store and notification are separate; binding adds a listener for ever | a bound property follows |
| Undo stack, permission manager `internal/kernel/` | actions; map target -> owner | `Push`, `Undo`; `TryLock`, `Unlock` | callback under the mutex; check, then delete | one owner per target |
| Value tree, file watcher `internal/state`, `internal/kernel/fs_watcher.go` | parameters, listener channels; stop channel | `SetParameter`, `Subscribe`; `Watch`, `Stop` | full channels drop; broadcasts overtake each other | a listener ends with the last value |
| Shell bridges `internal/shell` | platforms, hooks | `AttachShell`, `DetachShell`, `Dispatch` | hooks are posted after the mutex is released | attach hooks before detach hooks |
| Window manager, engine `internal/ui/wm.go`, `engine.go` | windows, order, active window; the tray | spawn, close, activate, layout; restart | callbacks during layout | the active window exists and is visible |
| Script bridge and web view `internal/ui/widgets/webview.go` | queue, handlers, history | `Send`, `Pump`, navigation | handlers that send and pump | a reply for each call, in order |
| Mesh node, discovery, teleport `internal/net` | set of peers | join, leave, broadcast | blocking write under the mutex | a dead peer leaves |
| Database, VFS, pak files, time machine `internal/data` | little of their own | calls into SQLite and the file system | I/O | |
| Audio graph, synthesizer, sequencer, DSP, MIDI `internal/audio` | nodes, notes, filters | render, set, connect | the setters, covered by the signals module | |
| Registries and simulated services `internal/kernel` | maps behind one mutex | register, find | single critical sections | |
| Virtual machine, recorders `internal/vm` | environment, recorded steps | evaluate, record, replay | sequential | |

The components meet in the event loop: a setter emits, `Emit` posts one task
per listener, the loop runs the tasks on its own goroutine, tasks call setters
again. Process, clock and watcher own goroutines and talk to their callers
through channels.

### The core library (`src/`)

| component | state | operations | what makes it hard |
|---|---|---|---|
| Thread pool `src/corelib/thread/bobuihreadpool.cpp` | queue of pages, lists of waiting and expired threads, counters | `start`, `tryStart`, `startOnReservedThread`, `reserveThread`, `releaseThread`, `setMaxThreadCount`, `tryTake`, `clear`, `waitForDone`, the run loop | counters derived from containers that change at different moments; expiry races wakeup; `reset()` lets go of live threads |
| Semaphore `qsemaphore.cpp` | one atomic word | `acquire`, `tryAcquire`, `release` | several atomic operations per call, futex |
| Read-write lock `qreadwritelock.cpp` | a tagged pointer, a recycled private object | lock, unlock, recursive | passing from counter to object |
| Mutex, recursive mutex `qmutex.h`, `qmutex.cpp` | one atomic pointer; owner and count | lock, tryLock with timeout, unlock | futex; the owner is read without the mutex |
| Wait condition `qwaitcondition_unix.cpp` | counts of waiters and wakeups behind a mutex of its own | wait, wakeOne, wakeAll | timeout races wakeup; the caller's mutex is unlocked in the middle of a wait |
| Latch `qlatch_p.h`, `qlatch.cpp` | one atomic word | countDown, wait, arriveAndWait | the bit that says somebody waits |
| Future interface, result store, watcher `qfutureinterface.*`, `qresultstore.*`, `qfuturewatcher.cpp` | state bits, results, results held back, call-out events | report, cancel, suspend, wait, watch | results out of order; throttling and suspension share a condition |
| Continuations of futures `qfutureinterface.cpp`, `qfuture_impl.h` | links between futures, two mutexes in each | attach, run, cancel, cancel the chain | attaching races finishing; two orders of locking |
| Posted events, event loops `corelib/kernel/qcoreapplication.cpp`, `qeventloop.cpp`, `qeventdispatcher_unix.cpp` | list of events with two offsets, stack of loops, interrupt flag, wakeup descriptor | post, send, remove, delete later, exec, exit, processEvents | calls nest in handlers; other threads post and quit |
| Objects and connections `qobject.cpp` | lists of connections, removed ones kept until nobody walks the list, a count of references | connect, disconnect, emit, destroy | slots and other threads disconnect and destroy during an emission |
| Threads `bobuihread_unix.cpp` | state flags | start, finish, wait | finish races wait |
| Concurrent algorithms `src/concurrent` | count of threads, next item, blocks waiting to be reduced | start a thread, take items, map, reduce, throttle, finish | threads come and leave; the last to leave deletes the engine; one reduces without the mutex |
| Tools, text, I/O, serialization, item models, time, gui, widgets, network, SQL, D-Bus, XML, plugins | | | sequential or platform code with its own tests |

`PROJECT.json` lists the same components with their status, and the hazards of
the code with the line where each one bites.

## 2. Modules

| module | models | extends |
|---|---|---|
| `EventLoop` | `event_loop.go` | |
| `SerialExecutor` | what an event loop promises: the abstract specification `EventLoop` is shown to implement | |
| `EventLoopProofs` | theorems about `EventLoop` | `EventLoop` |
| `SignalSlots` | `signals.go` and the change-then-notify setter, composed with the loop | `EventLoop` |
| `MasterClock` | `master_clock.go` | |
| `Process` | `process.go` | |
| `ProcessProofs` | theorems about `Process` | `Process` |
| `Property`, `ValueTree`, `UndoStack`, `PermissionManager`, `ShellBridge`, `JSBridge` | `property.go`, `value_tree.go`, `undo_stack.go`, `permission_manager.go`, `shell_integration.go`, `webview.go` | |
| `Services` | the services of the Go kernel side by side, the signals with the loop among them | `SignalSlots` |
| `ServicesProofs` | theorems about the permission manager, shell bridge, clock, undo stack, value tree and reactive properties | `Services` |
| `ThreadPool` | `bobuihreadpool.cpp`, `bobuihreadpool_p.h` | |
| `ThreadEngine` | `bobuiconcurrentthreadengine.*`, `bobuiconcurrentiteratekernel.h`, `bobuiconcurrentreducekernel.h`, and `mappedReduced` of `bobuiconcurrentmapkernel.h` | |
| `Semaphore` | `qsemaphore.cpp` | |
| `SemaphoreProofs` | theorems about `Semaphore` | `Semaphore` |
| `ReadWriteLock` | `qreadwritelock.h`, `qreadwritelock.cpp` | |
| `ReadWriteLockProofs` | theorems about `ReadWriteLock` | `ReadWriteLock` |
| `ReadersOrWriter` | what a read-write lock promises: the abstract specification `ReadWriteLock` is shown to implement | |
| `Mutex` | the steps of `QBasicMutex` and `QMutex`, without an Init and Next of its own | |
| `RecursiveMutex` | `QRecursiveMutex` | `Mutex` |
| `WaitCondition` | `qwaitcondition_unix.cpp` with the mutex, between producers and consumers | `Mutex` |
| `Latch` | `qlatch_p.h`, `qlatch.cpp` | |
| `Locks` | the locks of the core library side by side | `ReadWriteLock` |
| `LocksProofs` | theorems about the mutex, the recursive mutex, the wait condition and the latch | `Locks` |
| `ResultStore` | `qresultstore.h`, `qresultstore.cpp`, as operators on a store | |
| `FutureInterface` | `qfutureinterface.h`, `.cpp` and `qfuturewatcher.cpp` | `ResultStore` |
| `ResultStream` | what a future promises its readers: the abstract specification `FutureInterface` is shown to implement | |
| `FutureChain` | the continuations of `qfutureinterface.cpp` and `qfuture_impl.h` | |
| `Futures` | a future and a chain of futures side by side | `FutureInterface` |
| `FuturesProofs` | theorems about a future and a chain of futures | `Futures` |
| `PostedEvents` | `qcoreapplication.cpp`, `qeventloop.cpp`, `qeventdispatcher_unix.cpp`, parts of `qobject.cpp` and `bobuihread.cpp` | |
| `Connections` | the connections of a signal in `qobject.cpp`, `qobject_p_p.h` | |
| `Objects` | posted events and the connections of a signal side by side | `PostedEvents` |
| `ObjectsProofs` | theorems about the connections of a signal and about posted events | `Objects` |
| `MC...` | the constants of the instances that TLC checks, where a `.cfg` cannot say them | the module of that name |
| `MCServices`, `MCThreadPool`, `MCLocks`, `MCFutures`, `MCObjects` | several components in one instance | see below |

**Components that share nothing.** The services of the Go kernel, the thread
pool and the engine of the concurrent algorithms, the locks of the core library, a
future and a chain of futures, and posted events and the connections of a signal,
as they are modelled, share no state. Putting them side by side multiplies their
states and shows nothing new, so `Services`, `MCThreadPool`, `Locks`, `Futures` and
`Objects` with its `MCObjects` add them up: a variable `subject` is chosen at the start, its component
takes all the steps, and the others stay in their initial state, in which their
invariants hold and their fairness asks for nothing (or is conditioned on the
subject, in `Futures` and `MCThreadPool`). Each property is checked over all
behaviours of the component it is about; `MutexAndLatchAreSound` and `FuturesEnd`
are the conjunction of two such properties. In `Services`, `Locks`, `Futures` and
`Objects` each component is a named instance (`P`, `V`, `U`, ... in `Services`), and a theorem
about it starts from that component's own specification (`V!Spec => []...`), for all
values of the constants. In `Locks` the recursive mutex and the wait condition use
the same QMutex.

A definition whose comment begins with "Fault:" is not part of a
specification. It is a plausible mistake in the definition that follows it,
kept beside it so that each property can be shown to notice a mistake.

### EventLoop

A critical section of `el.mu` is one step and so is a channel operation, as in
Go's memory model. `Post` is `PostAppend` (the append under the mutex) and
`PostWakeup` (the non-blocking send, which sets a token or drops it); a
goroutine between the two is in `sending`. `Run` is `RunEnter`, then a select
between `RunQuit` and `RunReceive`, then `RunDrain` (the swap of the queue under
the mutex) and for each task of the batch `TaskBegin` and `TaskEnd`, between
which the task may post. `el.quit` is replaced by every `Run`, so the model
keeps which runner's channel it is (`owner`) and which channels are open. Tasks
are numbers in the order of the Posts.

### SignalSlots

`SetState` is the body that `Synthesizer.SetPolyphony`, `Sequencer.SetBPM`,
`Play`, `Stop`, `MasterClock.SetBpm`, `AudioPlayer.SetSource` and
`MidiHandler.SetCurrentDevice` share: return when the value is the same, change
it under the mutex, unlock, `Emit`. `Emit` takes the read lock (`EmitBegin`),
posts one task per listener, each post being the loop's two steps (`EmitPost`,
`EmitWakeup`), and unlocks (`EmitEnd`). Many Emits overlap; `Connect` needs the
write lock, and from its call (`ConnectBegin`) on no new Emit begins. `SlotReturn` is the task's call of the slot, which may itself have
called the setter. Slots are connected at most once each, to be told apart.

### MasterClock

Every `Start` spawns a heartbeat, numbered like its stop channel.
`EnterSelect` reads `mc.stopSignal` (the code does so without the mutex, at each
select), `Tick` is the ticker and the non-blocking send to `TickChan`,
`EmitStep` and `EmitBeat` are the two emissions, `Update` the step counter and
the new interval. `NewTicker` and `Reset` panic on an interval that is not
positive (`SetTicker`); the model records it in `panicked` and stops. At a tempo of
zero the interval is an infinity converted to an integer, which Go leaves to the
machine: the model takes either outcome. A tempo so high that the interval is cut
to zero is not modelled.

### Process

Each `Start` makes a new command with its own pipes, drain and waiter, while
`p.cmd`, the state and the channels are shared. `Start` holds the lock from the
new `p.cmd` to `StartSucceeds` or `StartFails`. The child is external: it writes
`MaxLine` lines, may read its stdin, exits, or is killed. The waiter evaluates
`p.cmd` when it first runs, without the lock (`WaiterBegin`), so after another
`Start` it may have the wrong command, or one that is not started yet;
`WaiterWait` is `cmd.Wait` on that command, which closes its pipe;
`WaiterClear` the state under the lock; `WaiterSend` the result. `Write`
keeps the read lock while it writes. A pending lock holds up new readers, as
Go's RWMutex does. Lines are numbers; of the two drains, which run the same
code on data of their own, one is modelled. `p.stdin` is replaced by each `Start`,
so the pipe to the child is modelled for the command in `p.cmd`.

### ThreadPool

All of the pool's private object changes under one mutex. The private functions
(`tryStart`, `enqueueTask`, `tryToStartMoreThreads`, ...) are operators from one
state of the object to the next; the public functions and the critical sections
of the run loop are actions. A page of the queue has a priority, tasks and room
for more, because the code's order of tasks depends on when a page is full and
when it is removed. Between critical sections a thread is running a task,
waiting, or done with `run()`. A deleted thread object frees its number.

Not modelled: exceptions thrown by tasks, stack size, service level, thread
priority, assertions, spurious wakeups. `stealAndRunRunnable` is a `TryTake`
whose caller runs the task.

### ThreadEngine

One `mappedReduced()`, run asynchronously. `pc` says where a thread of the pool
stands in `run()`: it may start another (`Decide` whether to, `Acquire` counts it
unless the future is cancelled, `TryStart` asks the pool, which has a thread for
the engine or has not), takes a block of items
(`ForReserve`) or one item of a sequence without random access, whose iterator
one thread at a time may use (`WhileEnter`, `Iterate`), waits while the future is
suspended, may start another thread, calls the function (`Map`, `MapThrows`), and
reduces or leaves its block to the thread that does (`RunReduce`,
`ReducedOrdered`, `ReducedUnordered`). It then goes on or wants to leave
(`Throttle`), which the last one may not (`ThrottleExit`); `Exit` and `Finish` are
the end. A block stands for its results and is known by its first item. Every
atomic operation and critical section is a step of its own, but for the check
for cancelling that comes before a block is taken. The sizes that the block size
manager chooses by the clock are any of a set.

Not modelled: the modes that block or use one thread, exceptions of the reducing
function, progress, and the kernels that report results (`FutureInterface` has
their reports).

### Semaphore

The word has three parts: tokens, the sum of tokens and waiters (64-bit Linux
only), and the bit. Each atomic operation is a step; a load and the
compare-and-swap loop that uses it are one, since the loop ends with a swap of
the value it has compared. `futexWait`'s comparison and going to sleep is one
step, as in the kernel. A return of the futex call without a wake (`Interrupt`)
and a timeout (`Expire`) may come at any moment. `HasWaiterCount` chooses the
layout of the word.

Not modelled: the variant on `std::mutex` for platforms without futex, overflow
of the 31-bit fields, `QSemaphoreReleaser`.

### ReadWriteLock

`d_ptr` has the four shapes of the comment at the head of the source: `Null`,
`Reading(n)`, `Writing` and `At(p)` for an object `p`. A load of the pointer, a
compare-and-swap and a critical section of an object's mutex are a step each;
`d[t]` is what thread `t` last read, so it may be stale, and may name an object
that has been released or is in use again. The loop of a locking call is
`TryLock` (the swaps that need no object), `Allocate` and `Install` (an object
with the counts of the pointer, swapped in), `Load`, and `Enter`, which compares
the pointer again under the mutex. `TakeOrWait` is a turn of the loop in
`lockForRead` and `lockForWrite`; after a wait it is `Resume`. The inline fast
paths of the header are the same steps as the first turn of the loops.
`UnlockSwap` and `UnlockObject` are the two ways to unlock. A deadline may
expire at any moment before it is looked at; a `tryLock` without timeout has one
that has expired from the start; a condition variable may wake without a reason.

Not modelled: the recursive mode, and overflow of the count of readers.

### The smaller Go services

In each a critical section is a step and a call made after the unlock is
another one. `Property`: the goroutine keeps the notifications that a `Set` still
has to make (`todo`), which call the Sets of the bound properties in their turn;
`Bind` is its three steps, the listener, the read and the first `Set`. `ValueTree`:
`Store` under the write lock, `Broadcast` and `Send` under the read lock, during
which no other write or subscription comes in; a full channel drops. `UndoStack`:
`Undo` finds the action and runs it, `Undone` removes it, with the mutex held in
between. `PermissionManager`: one operation of the concurrent map is a step, so
`Unlock` is a load and a `Delete`; `held` has what was granted and not given back,
and `crossed` the Unlocks whose `Delete` can hit another's entry. `ShellBridge`: the platform changes under the
mutex and the hooks are posted one by one after it. `JSBridge`: one goroutine, and
a stack of the calls under way, for `OnMessage` and the handlers send and pump.

### Mutex, RecursiveMutex, WaitCondition, Latch

An atomic operation is a step, as is the kernel's comparison and going to sleep.
A thread stands inside `lock` or `unlock` at a label of its own (`lock`), and where
it stands in the code around it is kept by the module that uses the mutex: `at`
in `RecursiveMutex`, whose owner is written after the mutex was locked and before
it is unlocked, and `pc` in `WaitCondition`. There the condition's own pthread
mutex (`mu`) is held between two steps only while the caller's mutex is being
unlocked. A deadline may pass at any moment, a futex call may be interrupted, and
a condition may wake without a reason. The producers and consumers around the
condition are external; they use it as its documentation says.

Not modelled: the mutex object of platforms without futex, and waiting with a
read-write lock.

### FutureInterface and ResultStore

Everything but the watcher's count of pending events changes under `m_mutex`: a
critical section is a step, and the atomic `pending` has steps of its own. The
worker is a computation with a promise, or the engine of the concurrent
algorithms, which can filter: it starts, polls `suspendIfRequested` before each
report, reports one result or a list, in any order, and finishes, throws, or lets
go of the promise. `state` is the set of flags. The watcher connects at any
moment, is given what is there (`Connect`), takes its events one by one
(`TakeEvent`), unthrottles, and leaves. `ResultStore` has the store's operations
as operators: the map from first index to item, the results held back until the
gap before them is filled, and the two counts.

Not modelled: progress, `waitForNextResult`, `takeResult`, exceptions of the thread
engine, clearing a map that another thread is reading.

### FutureChain

Future 0 is the computation's; future k is what attaching to k - 1 returned. The
links are the continuation function (`stored`), the next future
(`continuationData`) and the one before (`nonConcludedParent`). Critical sections
are steps, except in `cancelImpl` and `cancelChain`, which take a mutex while they
hold another: there each mutex taken is a step, and `locked` says which are held.
Continuations run in the thread that finishes their parent. `Clean` takes each
future's continuation on its own. In the code the promise of an `onCanceled`
handler lives in the closure of its parent's continuation
(`qfuture_impl.h:784`), so that its own is cleaned inside that of its parent
(`qfutureinterface.cpp:1008`), under the parent's mutex; no property depends on it.

Not modelled: launching on a pool or a new thread, continuations in the context of
an object, `onFailed`, exceptions, unwrapping.

### PostedEvents

The thread is a stack of calls, each with the place where it stands: `exec`,
`processEvents`, `sendPostedEvents` and the delivery of one event. A handler posts,
removes, sends, processes events, exits a loop, or runs one of its own; the
handler of a deletion destroys the object. The loop of `sendPostedEvents` is
`SendSkip` (delivered before, not for this receiver, or a deletion that has to
wait), `SendDeliver` and `SendEnd`, under the mutex of the list except during
the delivery. `startOffset`, `insertionOffset` and the local index are those of
the code (`Index`: the local variable is a reference to the list's own offset when
everything is sent). `recursion`, `loopLevel` and `scopeLevel` are counted on the
stack. The dispatcher's `interrupt`, `canWait`, `wakeUps` and the descriptor are
read and written one at a time; other threads post, remove, and quit between
any two steps. `deleteLater` takes the mutex twice in the code and once in the
model; what can come in between is a second `deleteLater`, which does nothing.

Not modelled: timers and sockets, which only wake the thread more often; event
filters and compression; sending one type of event only; `moveToThread`; that
`recursion` is increased before the mutex of the list is taken.

### Connections

One signal of one sender. `conn` holds the connections by their id, which is the
order they were made in, with the links of the list both ways; a connection
without receiver has been removed. `connect`, `removeConnection` and a step of the
destructors hold the mutexes of both ends and are a step each. `disconnect` of a
receiver walks the list under the sender's mutex (`See`) and may have to let go of
it before it removes what it has found (`RemoveSeen`), since the mutexes are taken
in the order of their addresses. An emission holds no mutex: it takes a reference
to the list (`ref`), and reading the first connection, a receiver and the next
connection are steps of their own (`First`, `Visit`, `Advance`). A receiver of another
thread is posted to in two critical sections (`Queue`, `Post`), and a single-shot
connection is removed first, by the one who gets to do it (`Claim`). Each thread has
a stack of calls; a slot emits, connects, disconnects and destroys objects of its
thread, the sender among them. Removed connections are kept in `orphaned` and
freed by `Clean` when nobody else has a reference, or with the list.

Not modelled: unique and blocking connections, the signals a connection to index
-1 hears, the vector of lists that grows, `moveToThread`, the handles that keep a
removed connection's memory, and the mutexes as such, with the order they are
taken in. That a sender is not destroyed while other threads use it is for its
owner to see to, as the documentation of `~QObject` says, and assumed.

## 3. What is checked

Every property of a passing run has a mutant in `PROJECT.json`: a fault in a
definition it depends on, under which TLC finds the property violated.

| run | distinct states | instance | shows |
|---|---|---|---|
| `loop_restart` | 31,000 | 2 posters, 2 runners, 4 Posts, any number of Stops and Runs | `NoLostWakeup`, `ExactlyOnce`, `LoopIsKnown`; `LoopServes` |
| `go_services` | 395,000 | eight subjects, see below | `BoundAgrees`, `SubscribersAreTold`, `UndoneOnce`, `GrantedIsKept`, `HooksMatchPlatforms`, `EveryMessageOnce`, `ClockIsSound`, `SlotsHearEmissions`; `StopSilences`; the loop below the signals implements `SerialExecutor` |
| `process_restart` | 220,000 | 2 Starts of 2 lines each, channels and pipes of 1 | `LinesInOrder`, `StateIsTrue`; `CallsEnd` |
| `pool_safety` | 125,000 | two subjects: 3 tasks of 2 priorities, limits 1 and 2, pages of 2, reservations both ways, 1 waiter; 3 items, 2 threads, blocks of 1 or 2, 1 suspension | `CountersAgree`, `TasksAreKept`, `WithinLimit`, `PoolServes`; `ComputationIsExact`, `EngineFinishes` |
| `semaphore_count` | 1,600,000 | 3 acquirers of 1 or 2 tokens, 2 releasers, 2 tokens, the word with the counter | `WordIsExact`, `SinglesAreWoken` |
| `locks` | 629,000 | four subjects, 3 threads each | `LockIsKept`, `MutexAndLatchAreSound`, `WakesAreDue`; `WritersGetIn`; the read-write lock implements `ReadersOrWriter` |
| `futures` | 288,000 | 3 results, 1 waiter, 1 watcher with room for 1 event; a chain of 2 continuations | `ResultsAreInOrder`, `WatcherIsTold`, `ChainIsSound`; `SuspendedIsQuiet`, `FuturesEnd`; the future implements `ResultStream` |
| `objects` | 1,406,000 | 2 objects, 2 events of 2 priorities, 1 other thread and 1 that quits, 2 loops inside one another, 8 calls deep; 2 or 3 connections of 2 receivers in 2 threads | `EventsAreDelivered`, `NobodyBlocksBesideEvents`; `NothingFreedIsUsed`, `EmissionsAreExact` |

The subjects of `go_services`, with their states:

| subject | states | instance |
|---|---|---|
| property | 2,200 | 2 goroutines, 2 values, 3 properties, each bound to one before it or to none |
| tree | 136,000 | 2 goroutines, 1 key, 2 subscribers with channels of 1, 3 writes |
| undo | 9,700 | 2 goroutines, a stack of 3, 5 actions |
| permission | 280 | 3 goroutines for 2 devices, 2 targets |
| shell | 6,100 | 2 goroutines, 2 platforms, 2 hooks |
| bridge | 4,100 | 4 messages, 6 calls deep |
| clock | 85,000 | 2 Starts, tempi -1, 0 and 120, a bar of 4 steps with 2 to the beat, TickChan of 1 |
| signals | 151,000 | 1 goroutine and the slots as setters, 1 runner, 2 slots, 3 emissions |

Why the bounds are enough. The protocols are symmetric in their participants
and each hazard needs few of them: a lost wakeup needs one Post overtaking
another, so two posters and more Posts than the channel has room for; a
restart needs two runners, and a third behaves as the second does; a full
channel or pipe is full at 1; a page boundary is crossed by the third task of a
page of 2; a pool needs a thread that waits, one that expires and one that
works, with tasks left for a fourth moment. Of an engine's two threads one is about to leave while the other takes, stores or
reduces a block; the third item is the one that is left to take. With three threads
(1.7 million states, without liveness) and with four items it passes as well. The
limits of the reduction, 20 and 30 blocks a thread in the code, are 0 and 1, so that
both are passed. The semaphore's third acquirer is
the one that takes the token a sleeper was woken for. Three threads give a lock
a holder, a waiter and one that comes in between, or leaves by its deadline; the
read-write lock needs no bound but the threads, and as many objects as threads
are enough, since each has at most one to install and never while the installed
one is its own. Three results are what it takes to have a gap with a result on
both sides of it. A chain of two has a future in the middle, with a parent and a
continuation. Of the events, one that a handler posts or removes and one that is
being delivered; a handler, the call of `sendPostedEvents` or the loop in it, and
the delivery in that one make a nesting of two with eight places on the stack.
The instance with 3 events, 1 loop and 6 calls, which has 7 million states, passes
as well and is not part of the suite. Of connections, two let an emission stand on
one that is removed with the next one, while the other thread emits and
disconnects; with three there is one in the middle of the list, removed with its
neighbours by nested calls, while the other thread connects and disconnects one at
a time. Bounds on counters (`MaxPost`, `MaxEmit`,
`MaxStart`, `MaxTask`, `MaxTokens`, `MaxWrites`, `MaxActions`, `MaxMessages`,
`MaxEvents`, `MaxLoops`, `MaxDepth`, `MaxSuspensions`, `Reserve`, `Thread`) are in the guards of the
actions named after them and nowhere else.

`CHECK_DEADLOCK` is `FALSE` where the bounds stop the system: in the runs of the
semaphore (releases are bounded by `MaxTokens`, and a thread that asks for more
than is left rightly waits for ever), in `go_services` (writes, actions, messages and
Starts run out), in `futures` and `chain_deadlock` (a future that has finished and
been read has nothing left to do), and in `objects` (when the objects of a signal
have been destroyed, nobody can call anything). Deadlock is checked in all other runs;
an engine that has finished may stutter, and that it does finish is `EngineFinishes`.

### Fairness

Goroutines and threads inside a call are scheduled (weak fairness on their
steps); nobody is obliged to make a call, to stop a loop, or to time out.
- A Go select with several ready cases picks one at random, so a case that is
  ready again and again is taken: strong fairness on `RunReceive`, `RunQuit` and
  the clock's `Quit`. A stopped `Run` that keeps receiving wakeups returns only by
  this.
- `Process` assumes of the child that it goes on writing, reads its stdin and
  exits, and of the caller that it receives from both channels. Without the
  first a `Write` keeps the read lock for ever and `Kill` with it; without the
  second a caller that waits for `Done` before it reads `Output` waits for ever
  once `Output` and the pipe are full.
- Of the pool's tasks it is assumed that they return, and of a thread that holds
  the read-write lock that it unlocks it.
- Of an engine's threads it is assumed that the pool runs them and that the mapped
  function returns or throws, and of a future that whoever suspends it resumes it.
- Of a computation it is assumed that it ends (strong fairness on `Ending`: it may
  pause, and be resumed, any number of times) and that a caller who suspends a
  future resumes or cancels it in the end. If the future was cancelled, nobody
  needs to resume it. Functions given to `then()` return.

That setters need no fairness at all is part of `SlotsHearEmissions`: a setter
inside a call has a step it can take, whatever the loop does.

### Disagreements

Four runs show behaviour of the code that a comment, an assertion or a test
contradicts. Each is expected to be violated.

| run | property | what happens |
|---|---|---|
| `process_output` | `NoLineLost` | `cmd.Wait` closes the pipe while the drain may not have read it, so the line a short command wrote is lost; the test of the package waits for such a line. |
| `semaphore_several` | `SleepersAreWoken` | With the counter, the high half that a waiter for two tokens compares is the same again when a release added a token and another waiter left; it sleeps beside the tokens it waits for. Without the counter this does not happen, which is proved. |
| `chain_deadlock` | `CancelReturns` | `cancel()` holds the mutex of a future and takes that of its continuation; `cancelChain()` on the continuation takes them in the other order. On two threads, neither returns. |
| `loop_exit` | `ExitReturns` | A handler calls `exit()` on its loop and then `processEvents()`. The inner call clears the interrupt flag and reads the wakeup; the loop then blocks in poll, told to exit, until something else wakes the thread. |

The models also show, without a run of their own, or with the exception written
into the property:

Go kernel
- after `Stop` and `Run` on another goroutine two tasks can be executing at once,
  since `Stop` does not wait for the old `Run` (`loop_restart` explores this;
  `SerialExecutor` is therefore claimed for one runner only);
- with two setting goroutines the last value a slot hears may be an old one,
  because the Emit follows the unlock; `SlotsHearEmissions` says that it is the
  field's value whenever the last change was made with no other setter on its way;
- a Stop and a Start of the clock while the heartbeat is inside a tick: it reads
  the new stop channel (`master_clock.go:115`) and runs on beside the new one,
  though `ROADMAP.md:27` says that no goroutine leaks. A later Stop ends both:
  `StopSilences` holds;
- a negative tempo makes the clock panic, and zero may (`master_clock.go:78`);
  `SetBpm` takes both. `ClockIsSound` says that nothing else does;
- a second `Start` of a running process, even one that fails, may take the command
  from the first one's waiter, which reads `p.cmd` late (`process.go:116`): the first
  child is then never waited for, and what is sent to `Done` for it is the result of
  another command, or an error. The first waiter also clears the second one's
  state. `StateIsTrue`, and in `CallsEnd` that a result is that of the Start's own
  child, are stated for callers that never start a running process;
- two `Set`s of a property that overlap, or a `Bind` and a `Set`, can leave the bound
  property with the older value; one more `Set` repairs it (`BoundAgrees`). A
  property that is bound again keeps the listener of the first binding, and a
  cycle of bindings calls itself without end;
- an undo callback that calls its own stack waits for itself;
- two goroutines that call the permission manager for the same device can release
  what another device has been granted: both load the entry in `Unlock`, and the
  second `Delete` comes after the grant (`permission_manager.go:36`). `GrantedIsKept`
  follows this: a grant is lost only to the `Delete` of an `Unlock` that was crossed
  by a call of its own device, or by the `Delete` of one that was.

Core library
- a task of negative priority that is handed to a waiting thread goes to a new
  first page of priority 0, its own page becomes empty, and the first page is
  removed with the task (`bobuihreadpool.cpp:226`); any task handed to a waiting
  thread is queued at priority 0, so one of lower priority may run before it;
- with a second caller of `waitForDone` the first may wait for ever: a thread that
  was woken for a task which `tryTake` then removed is dropped by the `reset()` of
  the second caller and returns without waking the first; `PoolServes` is
  stated for, and `pool_safety` has, one caller. A thread that `reset()` has
  dropped can find tasks in the queue, where the code asserts that it is empty;
- `mappedReduced()` over a sequence without random access can finish with items that
  were never mapped, though `bobuiconcurrentmap.cpp:432` says that the function is
  called once for each item. A thread that finds the iterator in use is finished
  (`bobuiconcurrentiteratekernel.h:300`). Before it has left, the thread that used the
  iterator is asked to throttle, because the future is suspended or the reduction is
  behind, and may leave, since it is not the last (`bobuiconcurrentthreadengine.cpp:125`).
  Then the first one leaves and is the last, and finishes the future.
  `ComputationIsExact` excepts such a sequence once a thread has left to throttle.
  Without this exception TLC finds the behaviour, in 22 steps;
- of a wait condition: a waiter that times out can leave a wakeup behind, which a
  thread that comes later takes, so that `wakeAll` may wake one who was not there;
- a future that was cancelled before it started stays `Pending`
  (`qfutureinterface.cpp:407` returns), and who waits for it does not return;
  `FuturesEnd` excepts these waiters. A future that is suspended or throttled
  before it starts loses those flags in `reportStarted`;
- an exception reported on a cancelled future clears its results, which
  `qfuture.qdoc:178` says remain; a watcher given another future leaves the old one
  throttled;
- `cancelChain` on a future that has finished marks it cancelled, which
  `qfuture.qdoc:217` says has no effect; `nonConcludedParent` is read under the
  mutex of the child and reset under that of the parent; and the cleanup of a
  continuation overwrites the mark that cancelling had set;
- a `cancel()` that finds the future already cancelled returns at once
  (`qfutureinterface.cpp:134`). If it was a `cancelChain()` on another thread that has
  set the flag and has not yet marked the continuations behind the next one, they may
  still be called after that `cancel()` has returned. `ChainIsSound` says of each
  call only what it has stopped itself; the proof showed the difference, and TLC
  confirms it with two callers and two continuations;
- a queued single-shot connection is removed before its event is posted, and the
  receiver's mutex is taken again in between: a receiver that is destroyed there, by
  its own thread, no longer knows of the connection and is posted to when it is gone
  (`qobject.cpp:4235`); `EmissionsAreExact` excepts single shots from this;
- an object whose deletion was deferred, and was posted again because a nested
  loop was too deep, is not deleted when that loop has returned but when the
  thread next wakes, though `qcoreapplication.cpp:1849` says otherwise; a `deleteLater` of another thread counts as
  called at level 0 and may delete an object whose handler is on the stack; and
  after a send for one object the insertion offset can be stale, so that an event
  of high priority is appended behind those of low priority
  (`qcoreapplication.cpp:1615`);
- "Events with equal priority will be processed in the order posted"
  (`qcoreapplication.cpp:1618`), but a send for one object walks the list with an index
  of its own (`qcoreapplication.cpp:1793`). When a send for all ends in a handler inside
  it, what is erased (`qcoreapplication.cpp:1824`) is not taken off that index. If the
  handler then posts to the object, to another one, and to the object again, and sends
  for the other one, the outer send passes over the first of these events and delivers
  the last. `EventsAreDelivered` marks such a send (`Ahead`) and excepts what it delivers.
  This takes five events, more than the run posts: the proof found it, and TLC
  confirms it when the receivers of the five are given, in 28 states.

## 4. What is proved

TLAPS checks every proof to the last leaf. The theorems hold for all values of
the constants that satisfy the named assumptions.

`EventLoopProofs` assumes `EventLoopAssumption`: posters and runners are
disjoint, and `NoRunner` is not a runner.
- `TypeCorrect`. The type is not inductive by itself: `TaskEnd` takes the head of
  a batch, which is a task only if the batch is not empty. `BatchInv` adds that a
  runner holds tasks while it executes a batch and at no other time.
- `NoWakeupIsLost` is inductive relative to the types. The only step that can
  take the token away leaves its runner about to swap the queue, and the only
  step that leaves that position empties the queue.
- `LoopIsLive`: the two parts of `LoopIsKnown`, `OneLiveLoop` and
  `RunningIsServed`, are inductive together. A `RunEnter`
  replaces the quit channel only when the previous one was closed by the `Stop`
  that cleared `running`.
- `TasksAreExactlyOnce` needs `OnlyPosted`, that no place holds a number that has
  not been posted yet, so that a Post appends a new task; and `BatchInv`, so that
  the swap of the queue does not overwrite a batch.

`SemaphoreProofs` assumes `SemaphoreAssumption`: the acquirers are a finite set,
amounts asked for are positive.
- `SemaphoreInvariant`: type, `TokensAreConserved`, `WaitersAreCounted` and
  `CountedCalls` are inductive together. That the sum never becomes negative
  (the type) follows from the count of the waiters; that the count stays right
  needs a thread that leaves to be one of those counted. The cardinality of the
  set of waiters is followed through every step by the lemma `AnnouncedMoves`.
- `SemaphoreTypeCorrect`, `TokensConserved`, `WaitersCounted` follow from it, and
  `WordExact`, which is all three.
- `NoWakeupLostWithoutCounter`: on the word with the bit only, a thread that
  sleeps although there are tokens enough for it is about to be woken. This is
  also all that is said of the word with the bit: the runs have the counter.

- `NoSingleIsForgotten`: `SinglesAreWoken`, for both layouts of the word. The
  inductive form compares numbers: if somebody sleeps for one token, the tokens in
  the word are at most those for which somebody is on the way, a thread for one
  token that was woken and has yet to look (`Singles`) or one of the wakes that a
  release still owes (`Owed`).

`OneRunnerIsSerial` in `EventLoopProofs`: with one runner, whatever the posters, the
event loop implements `SerialExecutor`. The refinement mapping shows done, running
and queued tasks; `Numbered` says that the finished tasks, the batch and the queue
are together the numbers from 1 in order, so that the head of the batch is the task
the executor starts next.

`ReadWriteLockProofs` assumes `RWAssumption`: the threads are a finite set.
- `RWInvariant`, and from it `LockKept`. `LockIsKept` is not inductive. A swap that
  installs an object needs the object to be in one thread's hands and to have the
  counts of the pointer it replaces; an unlock that has found an object needs it to
  be installed still. `CallInv` says both. And the critical section of an unlock
  takes out a writer if there is one, which is the caller only because readers and a
  writer never hold the lock together (`Exclusive`).
- `IsALock`: the lock implements `ReadersOrWriter`, as a step that gives the lock to
  a thread finds by `RWInv` that the counts it looked at are those of the holders.

`ProcessProofs` assumes `ProcessAssumption`: natural bounds, and room for one line in
pipe and channel.
- `LinesAreInOrder`. `LineInv` follows the lines of each command: those in the pipe and
  in the scanner's buffer are the last ones written, and what has left the drain
  and was not seen is in the channel, which two commands may share (`OutputInv`).
- `StateIsReliable`, with `WaiterInv`: how far the waiters of the last command and of
  the earlier ones have come, and what the state is by then. Unless Starts
  overlap, an earlier waiter is past the line that clears the state before the
  next `Start`, so that each finds its own command in `p.cmd`.

`LocksProofs`, about any number of threads:
- `OwnerAlone`: `OwnerIsInside`. It stands on `MutexInv` of the mutex, which every step
  of a `QMutex` keeps wherever it is taken: one thread holds it, the pointer is null
  when nobody does, and a thread that sleeps while the pointer does not say so has
  another that is about to wake it or to look again. The last is what a timeout could
  break: the thread that leaves is in none of these two places. `OwnerInv` adds that
  an owner is in neither `lock` nor `unlock`, so that no step of the mutex is the
  owner's, and a thread that got the mutex finds neither owner nor count.
- `LatchOpens`: `LatchIsSound`, with `WaitersAreMarked`: who waits has the bit cleared,
  which is never set again, and waits on a count that is not zero. So the count
  that drops to zero beside a sleeper finds the bit cleared and wakes.
- `MutexAndLatchHold` is the two together, as the run states it.
- `NoWakeIsSwallowed`: `WakesAreDue` of the wait condition, on `MutexInv`, for finitely
  many threads. `WakesAreDue` speaks of threads that block, and is not inductive: a
  thread that is on its way to block, or back from the condition without a wakeup
  for it, blocks without looking at the items again. `DueInv` asks the same as long
  as anybody may (`Sleepy`), and that `waiters` is the number of those in the wait. The
  cardinalities are followed through each step by `CardinalityMoves`.

`ServicesProofs`, about the services of the Go kernel:
- `GrantsAreKept`: `GrantedIsKept`, for any number of goroutines that call for a device.
  `DeletesItsOwn`: between the two halves of an `Unlock` that nobody has crossed the
  entry is still the device's, since another device's `Delete` can reach it only as
  a crossed one, and then crosses it too.
- `HooksAreTold`: `HooksMatchPlatforms`. `ShellInv` says at every moment what the
  property says at quiet ones: the balance of a hook is what the platform's state
  asks for, less the hooks that calls under way have yet to post; and the last thing
  a hook heard, with one call under way, is what that call is about to replace.
- `ClockIsExact`: `ClockIsSound`, for the bar of 16 steps and the beat of 4 of the code,
  and any tempi (`TempoInv`: a heartbeat that goes on has one that `SetTicker` took). That
  a beat comes after four steps follows from the number of
  the step the first heartbeat is at, wherever it stands in its loop (`BeatIsDue`);
  that no channel is closed twice from `isRunning` being true between a `Start` and
  the `Stop` that closes it.
- `UndoRunsOnce`: `UndoneOnce`, with `UndoInv`: an action is in the ledger, under its
  `Undo` or in the redo pool, the ledger is in the order of the pushes, and none is in
  both; so the index that `Undo` has found is the same when it removes the action.
- `ChangesAreTold`: `SubscribersAreTold`. `EachIsTold` names for every write since a
  subscription where it is: told, dropped, or ahead in a broadcast that has yet to
  come to the subscriber; `ToldInOrder` is stated with the calls that overlapped.
- `BoundAgree`: `BoundAgrees`, assuming that there is a property to set
  (`ServicesAssumption`). `CascadeOK`: unless calls have overlapped one goroutine is in
  a call, all it has yet to set gets one value, that of what it is bound to, and
  whatever does not depend on these agrees already. What depends on what is said with
  sets that are closed under the bindings, as a recursive definition would be out of
  reach. `RestIsUnset` covers the `Set` that repairs: what it does not come to has
  never had a value to disagree about.

`FuturesProofs`, for every number of results and waiters, and for chains of every
length with any number of threads that cancel (`ChainAssumption`: the length is a
natural number):
- `SuspendedStaysQuiet`: the action property `SuspendedIsQuiet`. Only a step that takes
  the flags away wakes a worker that is paused.
- `StoppedIsNeverCalled`: `ChainIsSound`, with `ChainInv`: what has been launched is a
  prefix of the chain (`LaunchInv`), the links of the rest are whole (`LinkInv`), and
  of every continuation that a call has set out to stop, either its parent's flag or
  its own mark is set already, or the call has it still ahead (`CallSound`, `Ahead`).
  A continuation that was stopped is skipped when its turn comes (`StopInv`).

`ObjectsProofs`, about the connections of a signal, for any number of connections,
receivers and threads and any depth of calls. `ConnectionsAssumption`: the threads
are a finite set, the sender is not one of the receivers, and neither is the value
that stands for no receiver.
- `NothingFreedIsUsedAlways` and `EmissionsAreExactAlways`, both from
  `ConnectionsInvariant`. The properties speak of connections that are connected;
  an emission may stand on one that was removed, whose link is as it was at that
  moment. `LinksLead` says that links lead forward and from what is not freed to what
  is not freed; `Leads`, that what an emission knew when it began leads to
  connections it knew or beyond the last it is to call; `SkipsNone`, that it passes
  over none that is still connected. Removing a connection keeps these because the
  one before it in the list takes over its link.
- `ReferencesAreCounted`: `ref` is the number of calls that walk the list, and one for
  the sender. So whoever frees removed connections, having found `ref` to be 1, is alone
  (`NobodyWalks`, `WalksAlone`).
- `LeftAlone`: once the sender is being destroyed, the emissions left are those below
  its destruction on the stack of its thread, and they find nothing connected.

And about the posted events of a thread, for any number of receivers, priorities,
events and other threads, and calls that nest as handlers please (the bounds are
any). `EventsAssumption`: the value that stands for every receiver is none of them,
priorities are integers and 0 is one, and the bound `MaxLoops` leaves room for the
loop of the thread itself.
- `EventsAreDeliveredAlways`: `EventsAreDelivered`, from `EventsInv`. `QueueOK` is the
  list: delivered up to `startOffset`, sorted by priority beyond `insertionOffset`,
  events of one object and priority in the order posted (`InPostingOrder`), and what
  it holds and counts is what is queued. It does not say that a delivery comes in
  turn, which depends on the calls that are under way. `StackSound`: handlers run in
  sends, and a send for one receiver is inside one for all. `SendsOK`: behind the
  index of a send for one receiver that is not `Ahead` stand only deletions of it; here the
  nested sends and posts of the handlers have to keep in front of the insertion
  offset what was there (`FrontStays`). `IdleOK`: when nobody sends for all, the
  insertion offset is 0; so a removal that finds nobody sending may make the list
  shorter and leave the offsets as they are. `DeadOK`: an event queued for a deleted
  object is there only until its destruction takes out the rest.
- `NobodyBlocksBesideEventsAlways`: `NobodyBlocksBesideEvents`, from `BlockInv`, which is
  `EventsInv` and what blocking depends on. `Nesting`: a `processEvents` that has called
  anything is in its send for all, one that may wait was called by a loop, and all
  those beneath one that runs know that they were disturbed. `BehindOffset`: while `canWait`
  is set nothing stands behind the insertion offset but deletions, which a send for all puts
  back for an outer loop; whatever else a handler posts there clears `canWait`. With
  `Sent`, that nothing stands in front of that offset when the send has ended, a
  `processEvents` that goes on to wait leaves only deletions. `Posts`: whatever comes between that
  and `poll` is announced by `wakeUps` or by a poster that is about to set it; `Wakes`:
  who has set `wakeUps` writes the descriptor before anybody may rest, and who
  reads the descriptor clears `wakeUps` next. `Exits` says the same of a loop that was told to
  exit: each undisturbed wait belongs to one loop, the one of its depth (`LevelAt`), which was
  not told when it called `processEvents` (`NewLoops`), and who tells it later wakes the thread.
- What the list is after a removal, with its elements moved to the front, is
  followed by a bijection from the elements that stay to positions (`CompactedIs`).

Only model-checked:
- the liveness properties, and `SlotsHearEmissions`, which says that a setter can
  take a step: fairness and ENABLED are beyond the prover;
- `CountersAgree`, `TasksAreKept` and `ComputationIsExact`: the pool's operators start as
  many threads as there is work for, in a recursion, and give its tasks out by
  folds over pages; induction over data is beyond the prover;
- `EveryMessageOnce`, `ResultsAreInOrder`, `WatcherIsTold` and that a future implements
  `ResultStream`: these are about flattened and filtered sequences, and folds over
  the store, of which nothing can be proved for the same reason;
- the action property `WithinLimit`, which is about the same steps of the pool.

## 5. Plan

Done: the event loop with its abstract specification and proofs, signals on top
of it, the clock, the process wrapper, the thread pool, the semaphore with proofs,
the read-write lock with its abstract specification; the smaller services of the
Go kernel; mutex, recursive mutex, wait condition and latch; futures with their
result store, watcher, continuations, and an abstract specification; posted events
and the event loops of a thread; the connections of objects; the thread engine of
the concurrent algorithms.

The suite is kept to a dozen runs and forty properties, so that all of it is
checked at every change; a new module makes room by joining an instance of
several subjects, by merging properties, or by leaving to a proof what a run
repeats.

Next, the model:
1. The kernels that report results, `ThreadEngine` composed with `FutureInterface`.
2. Starting, finishing and waiting for a thread (`bobuihread_unix.cpp`).
3. `RecursiveLock`: the recursive mode of the read-write lock, with levels per
   thread, on the operators of `ReadWriteLock`.
4. `WindowManager`: callbacks during layout.

Next, the proofs: the parts of `CountersAgree` that need no recursion; `WithinLimit`.

## 6. What is left out, and why

- Drawing, layout, styling, text shaping, platform plugins, DSP: computation on
  data without states a model checker could tell apart.
- Files, databases, sockets, D-Bus: protocols of the size of a project of their
  own, and behaviour that lies in the operating system.
- Containers, strings, formats, item models of the core library: sequential
  code with extensive test suites in the repository.
- The C++, Rust, Java and C# counterparts of the Go kernel: the Go code is the
  one with tests, and the others follow it.
- Simulated services (consensus, grid, self-healing): they log what they would do.
- Third-party code, build tools, tests and examples.
