---------------------------- MODULE PostedEvents ----------------------------
(***************************************************************************)
(* The posted events and the event loops of one thread: postEvent,         *)
(* sendPostedEvents and removePostedEvents (corelib/kernel/qcoreapplica-   *)
(* tion.cpp), addEvent (thread/bobuihread.cpp), QEventLoop, deleteLater,   *)
(* BOBUIhread::exec and exit, and QEventDispatcherUNIX::processEvents.     *)
(*                                                                         *)
(* The thread is a stack of calls: exec, processEvents, sendPostedEvents   *)
(* and the delivery of an event, whose handler may post, remove, send,     *)
(* process and exit, and run a loop of its own.  Other threads post,       *)
(* remove and quit.  Timers and sockets are left out: they only wake the   *)
(* thread more often.                                                      *)
(***************************************************************************)
EXTENDS Integers, SequencesExt

CONSTANTS
  Receiver,   \* objects that live in the thread
  Priority,   \* of events
  Poster,     \* other threads that post
  All,        \* sendPostedEvents for every receiver
  MaxEvents,  \* bound: events posted
  MaxLoops,   \* bound: loops inside one another
  MaxStack    \* bound: calls inside one another

ASSUME EventsAssumption ==
  /\ All \notin Receiver /\ Priority \subseteq Int /\ 0 \in Priority
  /\ MaxLoops \in Nat \ {0}

VARIABLES
  list,             \* QPostEventList: [event, priority], event 0 when delivered or removed
  startOffset,      \* QPostEventList::startOffset
  insertionOffset,  \* QPostEventList::insertionOffset
  canWait,          \* BOBUIhreadData::canWait
  postedEvents,     \* per receiver: QObjectPrivate::postedEvents
  deleteLaterCalled,
  events,           \* history: the events posted, numbered, and what became of them
  interrupt,        \* QEventDispatcherUNIXPrivate::interrupt
  wakeUps,          \* BOBUIhreadPipe::wakeUps
  eventfd,          \* the eventfd can be read
  stack,            \* calls of the thread
  exit,             \* per level: QEventLoopPrivate::exit
  exited,           \* BOBUIhreadPrivate::exited
  quitNow,          \* BOBUIhreadData::quitNow
  poster,           \* where a poster stands
  quitter           \* where BOBUIhread::exit, called on another thread, stands

queue == <<list, startOffset, insertionOffset, postedEvents, deleteLaterCalled, events>>
pipe == <<wakeUps, eventfd>>
loops == <<exit, exited, quitNow>>
vars == <<queue, canWait, interrupt, pipe, stack, loops, poster, quitter>>

\* Calls.  History: processEvents has run inside one that is "disturbed"; a send
\* for one receiver is "ahead" when a send for all inside it has ended, which takes
\* what it erases off its own index only.
Exec == [call |-> "exec", at |-> "enter"]
ProcessEvents(wait) == [call |-> "process", at |-> "begin", wait |-> wait, disturbed |-> FALSE]
SendPostedEvents(r) == [call |-> "send", at |-> "enter", to |-> r, i |-> 0, ahead |-> FALSE]
Notify(e) == [call |-> "notify", at |-> "handler", event |-> e]

Init ==
  /\ list = <<>> /\ startOffset = 0 /\ insertionOffset = 0 /\ canWait = TRUE
  /\ postedEvents = [r \in Receiver |-> 0]
  /\ deleteLaterCalled = {}
  /\ events = <<>>
  /\ interrupt = FALSE /\ wakeUps = FALSE /\ eventfd = FALSE
  /\ stack = <<>>
  /\ exit = [l \in 1..MaxLoops |-> FALSE] /\ exited = FALSE /\ quitNow = FALSE
  /\ poster = [q \in Poster |-> "idle"]
  /\ quitter = [at |-> "idle", loop |-> 0]

-----------------------------------------------------------------------------
\* The stack.

At(call, at) == stack # <<>> /\ Last(stack).call = call /\ Last(stack).at = at
Goes(at) == stack' = [stack EXCEPT ![Len(stack)].at = at]
Calls(f) == stack' = Append(stack, f)
Returns == stack' = Front(stack)

Frames(S) == {k \in DOMAIN stack : stack[k].call \in S}
loopLevel == Cardinality({k \in Frames({"exec"}) : stack[k].at # "enter"})
scopeLevel == Cardinality(Frames({"notify"}))
recursion == Cardinality(Frames({"send"}))

\* The mutexes of the list and of the thread, each held between two steps by
\* one call only.
ListUnlocked == ~At("send", "next")
ThreadUnlocked == quitter.at = "idle"

\* BOBUIhreadPipe::wakeUp, called by the thread itself
WakeUp == wakeUps' = TRUE /\ eventfd' = (eventfd \/ ~wakeUps)

-----------------------------------------------------------------------------
\* The list.

IsPending(x) == x.event # 0
Target(x) == events[x.event].to

\* QPostEventList::addEvent
AddEvent(l, x) ==
  LET lower == {j \in insertionOffset + 1..Len(l) : l[j].priority < x.priority}
  IN  IF l = <<>> \/ Last(l).priority >= x.priority \/ lower = {} THEN Append(l, x)
      ELSE InsertAt(l, Min(lower), x)

\* The critical section of postEvent
Post(e) ==
  /\ Len(events) < MaxEvents
  /\ ListUnlocked
  /\ events' = Append(events, e)
  /\ list' = AddEvent(list, [event |-> Len(events) + 1, priority |-> e.priority])
  /\ postedEvents' = [postedEvents EXCEPT ![e.to] = @ + 1]
  /\ canWait' = FALSE
  /\ UNCHANGED <<startOffset, insertionOffset>>

\* History: what is delivered by a send that is ahead has the fate "overtook".
Handled == {"handled", "overtook"}
Deleted == {events[e].to : e \in {e \in DOMAIN events : events[e].deletes /\ events[e].fate \in Handled}}
Live == Receiver \ Deleted

Ordinary == [to : Live, priority : Priority, deletes : {FALSE}, level : {0}, fate : {"queued"}]
DeferredDelete(r, l) == [to |-> r, priority |-> 0, deletes |-> TRUE, level |-> l, fate |-> "queued"]

PostOrdinary == \E e \in Ordinary : Post(e) /\ UNCHANGED deleteLaterCalled

\* deleteLater; the level is that of the caller in the thread of the object
DeleteLater(l) ==
  \E r \in Live \ deleteLaterCalled :
    /\ Post(DeferredDelete(r, l))
    /\ deleteLaterCalled' = deleteLaterCalled \cup {r}

\* The elements K of l, each moved to the front as far as it goes.
Compacted(l, K) ==
  [n \in 1..Cardinality(K) |-> l[CHOOSE k \in K : Cardinality({j \in K : j <= k}) = n]]

\* removePostedEvents, of all events or of the ordinary ones of a receiver: the
\* list is made shorter only when nobody is sending.
RemovePostedEvents(r, all, depth) ==
  LET taken == {k \in DOMAIN list : /\ IsPending(list[k]) /\ Target(list[k]) = r
                                    /\ all \/ ~events[list[k].event].deletes}
      gone == {list[k].event : k \in taken}
  IN  /\ ListUnlocked
      /\ postedEvents' = [postedEvents EXCEPT ![r] = @ - Cardinality(gone)]
      /\ events' = [e \in DOMAIN events |-> IF e \in gone THEN [events[e] EXCEPT !.fate = "removed"] ELSE events[e]]
      /\ list' = IF depth = 0 THEN Compacted(list, DOMAIN list \ taken)
                 ELSE [k \in DOMAIN list |-> IF k \in taken THEN [list[k] EXCEPT !.event = 0] ELSE list[k]]
      /\ UNCHANGED <<startOffset, insertionOffset, deleteLaterCalled>>

-----------------------------------------------------------------------------
\* sendPostedEvents

SendEnter ==
  /\ At("send", "enter")
  /\ LET f == Last(stack)
     IN  IF list = <<>> \/ (f.to # All /\ postedEvents[f.to] = 0)
         THEN /\ canWait' = (list = <<>>)
              /\ Returns
              /\ UNCHANGED insertionOffset
         ELSE /\ canWait' = TRUE
              /\ insertionOffset' = Len(list)
              /\ stack' = [stack EXCEPT ![Len(stack)].at = "next", ![Len(stack)].i = IF f.to = All THEN 0 ELSE startOffset]
  /\ UNCHANGED <<list, startOffset, postedEvents, deleteLaterCalled, events, interrupt, pipe, loops>>

\* The variable i of the loop: startOffset itself, for all receivers.
Index == IF Last(stack).to = All THEN startOffset ELSE Last(stack).i

HasNext == Index < Len(list) /\ Index < insertionOffset

\* The index moves on, and the top of the stack becomes s.
Advance(s) ==
  IF Last(stack).to = All
  THEN startOffset' = startOffset + 1 /\ stack' = s
  ELSE stack' = [s EXCEPT ![Len(stack)].i = @ + 1] /\ UNCHANGED startOffset

\* Is the DeferredDelete e sent, the events of the type not being asked for?
AllowDeferredDelete(e) ==
  \/ events[e].level > loopLevel + scopeLevel
  \/ events[e].level = 0 /\ loopLevel > 0

Nulled == [list EXCEPT ![Index + 1].event = 0]

\* An element that is not delivered: it was, or is for another receiver, or is a
\* deletion that has to wait, which goes to the end of the list.
SendSkip ==
  /\ At("send", "next") /\ HasNext
  /\ LET x == list[Index + 1]
         all == Last(stack).to = All
         other == ~all /\ IsPending(x) /\ Target(x) # Last(stack).to
         waits == IsPending(x) /\ ~other /\ events[x.event].deletes /\ ~AllowDeferredDelete(x.event)
     IN  /\ ~IsPending(x) \/ other \/ waits
         /\ canWait' = (canWait /\ ~other)
         /\ list' = IF waits /\ all THEN AddEvent(Nulled, x) ELSE list
         /\ Advance(stack)
  /\ UNCHANGED <<insertionOffset, postedEvents, deleteLaterCalled, events, interrupt, pipe, loops>>

SendDeliver ==
  /\ At("send", "next") /\ HasNext
  /\ LET x == list[Index + 1]
     IN  /\ IsPending(x)
         /\ Last(stack).to \in {All, Target(x)}
         /\ events[x.event].deletes => AllowDeferredDelete(x.event)
         /\ postedEvents' = [postedEvents EXCEPT ![Target(x)] = @ - 1]
         /\ list' = Nulled
         /\ events' = [events EXCEPT ![x.event].fate = IF Last(stack).ahead THEN "overtook" ELSE "handled"]
         /\ Advance(Append(stack, Notify(x.event)))
  /\ UNCHANGED <<insertionOffset, deleteLaterCalled, canWait, interrupt, pipe, loops>>

\* Fault: a send for one receiver cleans up as one for all does.
SendEndAlways ==
  /\ At("send", "next") /\ ~HasNext
  /\ IF recursion = 1 /\ ~canWait THEN WakeUp ELSE UNCHANGED pipe
  /\ list' = SubSeq(list, Index + 1, Len(list))
  /\ insertionOffset' = insertionOffset - Index
  /\ startOffset' = 0
  /\ Returns
  /\ UNCHANGED <<postedEvents, deleteLaterCalled, events, canWait, interrupt, loops>>

Ahead(f) == IF f.call = "send" /\ f.to # All THEN [f EXCEPT !.ahead = TRUE] ELSE f

\* ~CleanUp: what was delivered leaves the list.
SendEnd ==
  /\ At("send", "next") /\ ~HasNext
  /\ IF recursion = 1 /\ ~canWait THEN WakeUp ELSE UNCHANGED pipe
  /\ IF Last(stack).to = All
     THEN /\ list' = SubSeq(list, startOffset + 1, Len(list))
          /\ insertionOffset' = insertionOffset - startOffset
          /\ startOffset' = 0
          /\ stack' = [k \in 1..Len(stack) - 1 |-> Ahead(stack[k])]
     ELSE UNCHANGED <<list, insertionOffset, startOffset>> /\ Returns
  /\ UNCHANGED <<postedEvents, deleteLaterCalled, events, canWait, interrupt, loops>>

Send == SendEnter \/ SendSkip \/ SendDeliver \/ SendEnd

-----------------------------------------------------------------------------
\* QEventDispatcherUNIX::processEvents

ProcessBegin ==
  /\ At("process", "begin")
  /\ interrupt' = FALSE
  /\ stack' = Append([k \in DOMAIN stack |->
                        IF k = Len(stack) THEN [stack[k] EXCEPT !.at = "sent"]
                        ELSE IF stack[k].call = "process" THEN [stack[k] EXCEPT !.disturbed = TRUE]
                        ELSE stack[k]],
                     SendPostedEvents(All))
  /\ UNCHANGED <<queue, canWait, pipe, loops>>

ProcessCanWait ==
  /\ At("process", "sent")
  /\ stack' = [stack EXCEPT ![Len(stack)].at = "interrupt", ![Len(stack)].wait = @ /\ canWait]
  /\ UNCHANGED <<queue, canWait, interrupt, pipe, loops>>

ProcessInterrupted ==
  /\ At("process", "interrupt")
  /\ IF interrupt THEN Returns ELSE Goes("poll")
  /\ UNCHANGED <<queue, canWait, interrupt, pipe, loops>>

\* The thread blocks in poll if it may wait and has nothing to read.
Poll ==
  /\ At("process", "poll")
  /\ eventfd \/ ~Last(stack).wait
  /\ IF eventfd THEN Goes("read") ELSE Returns
  /\ UNCHANGED <<queue, canWait, interrupt, pipe, loops>>

\* Fault: the count of wakeups is cleared before the eventfd is read.
CheckClearFirst ==
  \/ /\ At("process", "read")
     /\ wakeUps' = FALSE
     /\ Goes("clear")
     /\ UNCHANGED <<queue, canWait, interrupt, eventfd, loops>>
  \/ /\ At("process", "clear")
     /\ eventfd' = FALSE
     /\ Returns
     /\ UNCHANGED <<queue, canWait, interrupt, wakeUps, loops>>

\* BOBUIhreadPipe::check
Check ==
  \/ /\ At("process", "read")
     /\ eventfd' = FALSE
     /\ Goes("clear")
     /\ UNCHANGED <<queue, canWait, interrupt, wakeUps, loops>>
  \/ /\ At("process", "clear")
     /\ wakeUps' = FALSE
     /\ Returns
     /\ UNCHANGED <<queue, canWait, interrupt, eventfd, loops>>

Process == ProcessBegin \/ ProcessCanWait \/ ProcessInterrupted \/ Poll \/ Check

-----------------------------------------------------------------------------
\* BOBUIhread::exec, and QEventLoop::exec in it or in a handler

ThreadExec ==
  /\ stack = <<>> /\ ThreadUnlocked
  /\ quitNow' = FALSE
  /\ exited' = FALSE
  /\ IF exited THEN UNCHANGED stack ELSE Calls(Exec)
  /\ UNCHANGED <<queue, canWait, interrupt, pipe, exit>>

ExecEnter ==
  /\ At("exec", "enter") /\ ThreadUnlocked
  /\ IF quitNow
     THEN /\ IF Len(stack) = 1 THEN Goes("left") ELSE Returns
          /\ UNCHANGED exit
     ELSE /\ Goes("loop")
          /\ exit' = [exit EXCEPT ![loopLevel + 1] = FALSE]
  /\ UNCHANGED <<queue, canWait, interrupt, pipe, exited, quitNow>>

ExecLoop ==
  /\ At("exec", "loop")
  /\ IF exit[loopLevel] THEN Goes("leave") ELSE Calls(ProcessEvents(TRUE))
  /\ UNCHANGED <<queue, canWait, interrupt, pipe, loops>>

ExecLeave ==
  /\ At("exec", "leave") /\ ThreadUnlocked
  /\ exit' = [exit EXCEPT ![loopLevel] = FALSE]
  /\ IF Len(stack) = 1 THEN Goes("left") ELSE Returns
  /\ UNCHANGED <<queue, canWait, interrupt, pipe, exited, quitNow>>

ThreadExecEnd ==
  /\ At("exec", "left") /\ ThreadUnlocked
  /\ exited' = FALSE
  /\ Returns
  /\ UNCHANGED <<queue, canWait, interrupt, pipe, exit, quitNow>>

ThreadStep == Send \/ Process \/ ExecEnter \/ ExecLoop \/ ExecLeave \/ ThreadExecEnd

-----------------------------------------------------------------------------
\* Handlers of the events of an object

InHandler == At("notify", "handler") /\ ~events[Last(stack).event].deletes
Room == Len(stack) < MaxStack

HandlerPosts ==
  /\ InHandler
  /\ \/ PostOrdinary
     \/ DeleteLater(loopLevel + scopeLevel)
  /\ WakeUp
  /\ UNCHANGED <<interrupt, loops, stack>>

HandlerRemoves ==
  /\ InHandler
  /\ \E r \in Live : postedEvents[r] > 0 /\ RemovePostedEvents(r, FALSE, recursion)
  /\ UNCHANGED <<canWait, interrupt, pipe, loops, stack>>

HandlerCalls ==
  /\ InHandler /\ Room
  /\ \/ \E r \in Live \cup {All} : Calls(SendPostedEvents(r))
     \/ Calls(ProcessEvents(FALSE))
     \/ loopLevel < MaxLoops /\ Calls(Exec)
  /\ UNCHANGED <<queue, canWait, interrupt, pipe, loops>>

\* QEventLoop::exit of a loop of this thread
HandlerExits ==
  /\ InHandler
  /\ \E l \in 1..loopLevel : exit' = [exit EXCEPT ![l] = TRUE]
  /\ interrupt' = TRUE
  /\ WakeUp
  /\ UNCHANGED <<queue, canWait, exited, quitNow, stack>>

HandlerReturns ==
  /\ InHandler
  /\ Returns
  /\ UNCHANGED <<queue, canWait, interrupt, pipe, loops>>

Destroying == At("notify", "handler") /\ events[Last(stack).event].deletes

\* A DeferredDelete: the object goes, and the events that are still posted to it.
Destroy ==
  /\ Destroying
  /\ Returns
  /\ RemovePostedEvents(events[Last(stack).event].to, TRUE, recursion)
  /\ UNCHANGED <<canWait, interrupt, pipe, loops>>

Handler == HandlerPosts \/ HandlerRemoves \/ HandlerCalls \/ HandlerExits \/ HandlerReturns \/ Destroy

-----------------------------------------------------------------------------
\* Other threads

PosterPosts(q) ==
  /\ poster[q] = "idle"
  /\ PostOrdinary \/ DeleteLater(0)
  /\ poster' = [poster EXCEPT ![q] = "wake"]
  /\ UNCHANGED <<interrupt, pipe, stack, loops, quitter>>

\* The atomic operation of wakeUp says whether the caller is to write.
PosterWakes(q) ==
  \/ /\ poster[q] = "wake"
     /\ poster' = [poster EXCEPT ![q] = IF wakeUps THEN "idle" ELSE "write"]
     /\ wakeUps' = TRUE
     /\ UNCHANGED <<queue, canWait, interrupt, eventfd, stack, loops, quitter>>
  \/ /\ poster[q] = "write"
     /\ poster' = [poster EXCEPT ![q] = "idle"]
     /\ eventfd' = TRUE
     /\ UNCHANGED <<queue, canWait, interrupt, wakeUps, stack, loops, quitter>>

\* A send counts itself before it takes the mutex: a data race.
PosterRemoves(q) ==
  /\ poster[q] = "idle"
  /\ \E r \in Live, depth \in {recursion, Cardinality({k \in Frames({"send"}) : stack[k].at # "enter"})} :
       postedEvents[r] > 0 /\ RemovePostedEvents(r, FALSE, depth)
  /\ UNCHANGED <<canWait, interrupt, pipe, stack, loops, poster, quitter>>

\* BOBUIhread::exit: every loop, from the outermost, is told to exit.  An exec that
\* has left took its loop, the last one, off the thread's list.
QuitBegin ==
  /\ quitter.at = "idle"
  /\ exited' = TRUE /\ quitNow' = TRUE
  /\ quitter' = IF loopLevel > 0 /\ ~At("exec", "left") THEN [at |-> "exit", loop |-> 1]
                ELSE quitter
  /\ UNCHANGED <<queue, canWait, interrupt, pipe, stack, exit, poster>>

QuitExits ==
  /\ quitter.at = "exit"
  /\ exit' = [exit EXCEPT ![quitter.loop] = TRUE]
  /\ quitter' = [quitter EXCEPT !.at = "interrupt"]
  /\ UNCHANGED <<queue, canWait, interrupt, pipe, stack, exited, quitNow, poster>>

QuitInterrupts ==
  /\ quitter.at = "interrupt"
  /\ interrupt' = TRUE
  /\ quitter' = [quitter EXCEPT !.at = "wake"]
  /\ UNCHANGED <<queue, canWait, pipe, stack, loops, poster>>

QuitNextLoop ==
  quitter' = IF quitter.loop < loopLevel THEN [at |-> "exit", loop |-> quitter.loop + 1]
             ELSE [at |-> "idle", loop |-> 0]

QuitWakes ==
  \/ /\ quitter.at = "wake"
     /\ IF wakeUps THEN QuitNextLoop ELSE quitter' = [quitter EXCEPT !.at = "write"]
     /\ wakeUps' = TRUE
     /\ UNCHANGED <<queue, canWait, interrupt, eventfd, stack, loops, poster>>
  \/ /\ quitter.at = "write"
     /\ eventfd' = TRUE
     /\ QuitNextLoop
     /\ UNCHANGED <<queue, canWait, interrupt, wakeUps, stack, loops, poster>>

Quit == QuitBegin \/ QuitExits \/ QuitInterrupts \/ QuitWakes

Next ==
  \/ (ThreadExec \/ ThreadStep \/ Handler) /\ UNCHANGED <<poster, quitter>>
  \/ \E q \in Poster : PosterPosts(q) \/ PosterWakes(q) \/ PosterRemoves(q)
  \/ Quit

Spec == Init /\ [][Next]_vars
-----------------------------------------------------------------------------
\* Properties

EventsTypeOK ==
  /\ list \in Seq([event : 0..Len(events), priority : Priority])
  /\ startOffset \in 0..Len(list) /\ insertionOffset \in Nat
  /\ canWait \in BOOLEAN /\ interrupt \in BOOLEAN /\ wakeUps \in BOOLEAN /\ eventfd \in BOOLEAN
  /\ exited \in BOOLEAN /\ quitNow \in BOOLEAN /\ exit \in [1..MaxLoops -> BOOLEAN]
  /\ postedEvents \in [Receiver -> Nat]
  /\ poster \in [Poster -> {"idle", "wake", "write"}]

Queued == {list[k].event : k \in {j \in DOMAIN list : IsPending(list[j])}}

\* However calls nest and whatever handlers and other threads post and remove,
\* an event is in the list once until it is delivered or removed; what an object
\* counts as posted is in the list; nothing is left for an object that has been
\* deleted; and the assertion insertionOffset >= 0 of the cleanup
\* (qcoreapplication.cpp:1826) holds.
NoneLost ==
  /\ Queued = {e \in DOMAIN events : events[e].fate = "queued"}
  /\ \A j, k \in DOMAIN list : j # k /\ IsPending(list[j]) => list[j].event # list[k].event
  /\ \A r \in Receiver : postedEvents[r] = Cardinality({e \in Queued : events[e].to = r})
  /\ \A e \in Queued : events[e].to \in Live \/ Destroying

\* a is still queued, and b was posted later to the same object with the same
\* priority.
IsBefore(a, b) ==
  /\ a < b /\ events[a].fate = "queued" /\ ~events[a].deletes
  /\ events[a].to = events[b].to /\ events[a].priority = events[b].priority

\* Events of one object and priority are delivered in the order in which they
\* were posted, even when some were sent for that object only, from inside
\* another delivery, as long as no send for all ended inside that send.
InOrder == \A a, b \in DOMAIN events : IsBefore(a, b) => events[b].fate # "handled"

\* Every event is delivered once or removed, those of one object and priority in
\* the order in which they were posted, but for a send that is ahead.
EventsAreDelivered == EventsTypeOK /\ NoneLost /\ InOrder

Blocked == At("process", "poll") /\ Last(stack).wait /\ ~eventfd

Others == quitter.at # "idle" \/ \E q \in Poster : poster[q] # "idle"

ExitingLoop == exit[loopLevel]

\* The thread does not block beside an event that it could deliver, nor in a
\* loop that was told to exit, unless somebody is about to wake it; as long as
\* no other processEvents has run inside the one that blocks.
NobodyBlocksBesideEvents ==
  Blocked /\ ~Others
    => /\ \A e \in Queued : events[e].deletes
       /\ ~Last(stack).disturbed => ~ExitingLoop

\* "the event loop returns from the call to exec()" (qeventloop.cpp:241)
ExitReturns == Blocked /\ ~Others => ~ExitingLoop
=============================================================================
