--------------------------- MODULE FutureInterface ---------------------------
(***************************************************************************)
(* The state a computation shares with those who wait for it and watch it: *)
(* QFutureInterfaceBase (qfutureinterface.h and .cpp) with its result      *)
(* store, and a QFutureWatcher in a thread of its own (qfuturewatcher.cpp).*)
(*                                                                         *)
(* Of the call-out events only those that change the watcher's count are   *)
(* kept: ResultsReady and Canceled.  The others are only emitted.          *)
(*                                                                         *)
(* Everything but the watcher's count of pending events changes under      *)
(* m_mutex, so a critical section is a step.  The worker is a computation  *)
(* with a QPromise: it starts, polls suspendIfRequested before each        *)
(* report, and finishes, throws or lets go of the promise.                 *)
(***************************************************************************)
EXTENDS ResultStore

CONSTANTS
  Results,    \* the computation has this many results to report
  Waiter,     \* threads that wait for a result or for the end
  Goals,      \* what they wait for: an index, All or Finish
  Limit,      \* QFutureWatcher::maximumPendingResultsReady
  Users,      \* who reports: a "promise", or the "engine" of the concurrent algorithms
  Begin       \* states a future is made in: {}, or {"Pending"} for then()

ASSUME FutureAssumption == Results \in Nat \ {0} /\ Limit \in Nat \ {0}

VARIABLES
  state,      \* d->state, as the set of its flags
  store,      \* d->data.m_results
  exception,  \* d->hasException
  user,       \* who reports the results
  worker,     \* where the computing thread stands
  waiter,     \* where each waiter stands, and what it waits for
  watcher,    \* where the watcher stands; "none" when it is not connected
  posted,     \* the events queued for the watcher
  pending,    \* QFutureWatcherBasePrivate::pendingResultsReady
  given,      \* history: the results reported, and whether they were kept
  heard,      \* history: the indices the watcher has announced
  left        \* history: the watcher has been disconnected

watching == <<watcher, heard, left>>
reporting == <<store, exception, user, given>>
vars == <<state, reporting, worker, waiter, watching, posted, pending>>

Index == 0..Results - 1
Finish == -1                  \* what waitForFinished waits for
All == Results                \* what waitForResult(-1) waits for: never ready
Paused == {"Suspending", "Suspended"}
Over == {"Canceled", "Finished"}

\* Only the engine filters.
Init ==
  /\ state \in Begin
  /\ user \in Users
  /\ \E filter \in BOOLEAN : (filter => user = "engine") /\ store = EmptyStore(filter)
  /\ exception = FALSE /\ worker = "new"
  /\ waiter = [t \in Waiter |-> [at |-> "out", goal |-> Finish]]
  /\ watcher = "none" /\ posted = <<>> /\ pending = 0
  /\ given = <<>> /\ heard = {} /\ left = FALSE

-----------------------------------------------------------------------------
CancelEvent == [type |-> "Canceled", begin |-> 0, end |-> 0]
Ready(b, e) == [type |-> "ResultsReady", begin |-> b, end |-> e]
IsReady(event) == event.type = "ResultsReady"
ReadyIn(events) == Len(SelectSeq(events, IsReady))

\* sendCallOut and QFutureWatcherBasePrivate::postCallOutEvent: an event that
\* announces results is counted, and beyond the limit throttles the future.
Post(events, s) ==
  /\ posted' = posted \o events
  /\ pending' = pending + ReadyIn(events)
  /\ state' = IF ReadyIn(events) > 0 /\ pending' > Limit THEN s \cup {"Throttled"} ELSE s

CallOut(events, s) ==
  IF watcher = "none" THEN state' = s /\ UNCHANGED <<posted, pending>> ELSE Post(events, s)

\* waitCondition.wakeAll(): the waiters look again.
WakeWaiters ==
  waiter' = [t \in Waiter |->
    IF waiter[t].at = "asleep" THEN [waiter[t] EXCEPT !.at = "check"] ELSE waiter[t]]

\* pausedWaitCondition.wakeAll(): a paused worker does not look again.
Resumed(w) == IF w = "paused" THEN "report" ELSE w

-----------------------------------------------------------------------------
\* reportStarted(): nothing of an earlier state is kept.
ReportStarted ==
  /\ worker = "new"
  /\ worker' = "poll"
  /\ IF state \cap {"Started", "Canceled", "Finished"} # {} THEN UNCHANGED state
     ELSE state' = {"Started", "Running"}
  /\ UNCHANGED <<reporting, waiter, watching, posted, pending>>

\* suspendIfRequested()
SuspendIfRequested ==
  /\ worker = "poll"
  /\ IF state \cap Paused = {} \/ "Canceled" \in state
     THEN worker' = "report" /\ UNCHANGED state
     ELSE worker' = "paused" /\ state' = (state \ Paused) \cup {"Suspended"}
  /\ UNCHANGED <<reporting, waiter, watching, posted, pending>>

\* reportResultsReady(begin, end), of a future that takes results
ReportResultsReady(begin, end) ==
  IF begin = end
  THEN UNCHANGED <<state, posted, pending, waiter>>
  ELSE WakeWaiters /\ CallOut(<<Ready(begin, end)>>, state)

\* What reportAndEmplaceResult and reportResults announce.
Announced(way, index, size, before, after) ==
  IF way = "emplace" THEN <<index, after>>
  ELSE IF store.filterMode THEN <<before, after>> ELSE <<index, index + size>>

\* Fault: a cancelled future takes results.
OpenUntilFinished == "Finished" \notin state

\* Neither Canceled nor Finished: what every report checks first.
Open == state \cap Over = {}

\* reportAndEmplaceResult(index), reportResults(values, index, size): a filter
\* has kept some of the results from index on.  A promise adds a list only at
\* the insert index.  A rejected computation may try again.
Report(way, index, size) ==
  LET span == index..index + size - 1
      after(kept) == AddResults(store, index, SetToSortSeq(kept, <), size)
      announced(kept) == Announced(way, index, size, store.resultCount, after(kept).resultCount)
  IN /\ way = "emplace" => user = "promise" /\ size = 1
     /\ way = "list" /\ user = "promise" => index = store.insertIndex
     /\ span \subseteq Index \ DOMAIN given
     /\ IF ~Open \/ ContainsValid(store, index)
        THEN UNCHANGED <<state, store, posted, pending, waiter, given>>
        ELSE \E kept \in IF store.filterMode THEN SUBSET span ELSE {span} :
               /\ given' = [i \in span |-> i \in kept] @@ given
               /\ store' = after(kept)
               /\ ReportResultsReady(announced(kept)[1], announced(kept)[2])

ReportSome ==
  /\ worker = "report"
  /\ worker' = "poll"
  /\ \E way \in {"emplace", "list"}, index \in Index \ DOMAIN given, size \in 1..2 :
       Report(way, index, size)
  /\ UNCHANGED <<exception, user, watching>>

\* reportException(e) of a promise, first half: the results are deleted outside the mutex,
\* so whoever looks sees all or none of them (or a torn map, which is not
\* modelled).
ClearResults ==
  /\ worker = "report" /\ user = "promise" /\ ~exception
  /\ worker' = "throwing"
  /\ store' = EmptyStore(store.filterMode) /\ given' = <<>>
  /\ UNCHANGED <<state, exception, user, waiter, watching, posted, pending>>

ReportException ==
  /\ worker = "throwing"
  /\ worker' = "threw"
  /\ IF ~Open THEN UNCHANGED <<state, exception, waiter, posted, pending>>
     ELSE /\ exception' = TRUE
          /\ WakeWaiters
          /\ CallOut(<<CancelEvent>>, state \cup {"Canceled"})
  /\ UNCHANGED <<store, user, watching, given>>

\* Fault: those who wait for results are not woken by the end.
FinishSilently ==
  IF "Finished" \in state THEN UNCHANGED <<state, waiter>>
  ELSE state' = (state \ {"Running"}) \cup {"Finished"} /\ UNCHANGED waiter

Finishing ==
  IF "Finished" \in state THEN UNCHANGED <<state, waiter>>
  ELSE WakeWaiters /\ state' = (state \ {"Running"}) \cup {"Finished"}

\* reportFinished()
ReportFinished ==
  /\ worker \in {"report", "threw"}
  /\ worker' = "done"
  /\ Finishing
  /\ UNCHANGED <<reporting, watching, posted, pending>>

\* ~QPromise: cancelAndFinish(), if the computation has not finished.
Destroy ==
  /\ worker \in {"new", "report", "threw"}
  /\ user = "promise" /\ "Finished" \notin state
  /\ worker' = "done"
  /\ WakeWaiters
  /\ CallOut(IF "Canceled" \in state THEN <<>> ELSE <<CancelEvent>>,
             (state \ (Paused \cup {"Running"})) \cup Over)
  /\ UNCHANGED <<reporting, watching>>
-----------------------------------------------------------------------------
\* cancel(), by any thread
Cancel ==
  /\ "Canceled" \notin state
  /\ WakeWaiters /\ worker' = Resumed(worker)
  /\ CallOut(<<CancelEvent>>, (state \ Paused) \cup {"Canceled"})
  /\ UNCHANGED <<reporting, watching>>

\* setSuspended(true), setSuspended(false); toggleSuspended() is one of them.
Suspend ==
  /\ state' = state \cup {"Suspending"}
  /\ UNCHANGED <<reporting, worker, waiter, watching, posted, pending>>

Resume ==
  /\ state' = state \ Paused
  /\ worker' = Resumed(worker)
  /\ UNCHANGED <<reporting, waiter, watching, posted, pending>>

\* The conditions of waitForFinished() and of waitForResult(goal).
MustWait(goal) ==
  IF goal = Finish THEN "Finished" \notin state
  ELSE /\ state \cap {"Running", "Pending"} # {}
       /\ exception \/ ~HasResult(store.results, goal)

\* A waiter with an exception to rethrow does not wait for a result.
Call(t, goal) ==
  /\ waiter[t].at = "out"
  /\ goal = Finish \/ ~exception
  /\ waiter' = [waiter EXCEPT ![t] = [at |-> "check", goal |-> goal]]
  /\ UNCHANGED <<state, reporting, worker, watching, posted, pending>>

Check(t) ==
  /\ waiter[t].at = "check"
  /\ waiter' = [waiter EXCEPT ![t].at = IF MustWait(waiter[t].goal) THEN "asleep" ELSE "out"]
  /\ UNCHANGED <<state, reporting, worker, watching, posted, pending>>
-----------------------------------------------------------------------------
\* QFutureWatcher::setFuture() connects: connectOutputInterface.
Connect ==
  LET keys == SetToSortSeq(DOMAIN store.results, <)
      results == [k \in 1..Len(keys) |->
                    Ready(keys[k], keys[k] + store.results[keys[k]].size)]
  IN /\ watcher = "none" /\ ~left
     /\ watcher' = "idle"
     /\ Post((IF exception THEN <<>> ELSE results)
              \o (IF "Canceled" \in state THEN <<CancelEvent>> ELSE <<>>), state)
     /\ UNCHANGED <<reporting, worker, waiter, heard, left>>

\* Fault: the last pending event does not end the throttling.
BelowLimit == pending < Limit

\* The count before the event is taken.
AtLimit == pending <= Limit

\* sendCallOutEvent: the count goes down without the mutex.
TakeEvent ==
  LET event == Head(posted)
      taken == IsReady(event) /\ "Canceled" \notin state
  IN /\ watcher = "idle" /\ posted # <<>>
     /\ posted' = Tail(posted)
     /\ pending' = IF event.type = "Canceled" THEN 0 ELSE IF taken THEN pending - 1 ELSE pending
     /\ watcher' = IF taken /\ AtLimit THEN "unthrottle" ELSE "idle"
     /\ heard' = IF taken THEN heard \cup event.begin..event.end - 1 ELSE heard
     /\ UNCHANGED <<state, reporting, worker, waiter, left>>

\* Fault: setThrottled(false) wakes the computation though it is suspended.
UnthrottleAndWake ==
  /\ watcher = "unthrottle"
  /\ watcher' = "idle"
  /\ state' = state \ {"Throttled"}
  /\ worker' = Resumed(worker)
  /\ UNCHANGED <<reporting, waiter, heard, left, posted, pending>>

\* setThrottled(false)
Unthrottle ==
  /\ watcher = "unthrottle"
  /\ watcher' = "idle"
  /\ state' = state \ {"Throttled"}
  /\ worker' = IF state \cap Paused = {} THEN Resumed(worker) ELSE worker
  /\ UNCHANGED <<reporting, waiter, heard, left, posted, pending>>

\* setFuture() with another future: the count is reset first, then
\* disconnectOutputInterface removes the posted events.
ResetPending ==
  /\ watcher = "idle"
  /\ watcher' = "leaving" /\ left' = TRUE
  /\ pending' = 0
  /\ UNCHANGED <<state, reporting, worker, waiter, heard, posted>>

Disconnect ==
  /\ watcher = "leaving"
  /\ watcher' = "none"
  /\ posted' = <<>>
  /\ UNCHANGED <<state, reporting, worker, waiter, heard, left, pending>>
-----------------------------------------------------------------------------
Ending == ReportFinished \/ Destroy

Watching == Connect \/ TakeEvent \/ Unthrottle \/ ResetPending \/ Disconnect

Next ==
  \/ ReportStarted \/ SuspendIfRequested \/ ReportSome \/ ClearResults \/ ReportException
  \/ Ending \/ Watching
  \/ Cancel \/ Suspend \/ Resume
  \/ \E t \in Waiter : Check(t) \/ \E goal \in Goals : Call(t, goal)

Spec == Init /\ [][Next]_vars

\* The threads run, the computation ends, and what was suspended is resumed or
\* cancelled in the end; if it was cancelled, nobody needs to resume it.
Progress ==
  \/ ReportStarted \/ SuspendIfRequested \/ ReportException
  \/ worker = "paused" /\ "Canceled" \notin state /\ (Resume \/ Cancel)

Fairness == WF_vars(Progress) /\ SF_vars(Ending) /\ \A t \in Waiter : WF_vars(Check(t))

FairSpec == Spec /\ Fairness

-----------------------------------------------------------------------------
\* The results that were kept and have no gap before them, in order.
Source == SetToSortSeq({i \in DOMAIN given : (0..i) \subseteq DOMAIN given /\ given[i]}, <)

\* Whatever the order in which results are reported, what can be read without a
\* gap is what was kept of the results reported so far, in the order of their
\* indices; and a result beyond a gap is ready once it was reported.
ResultsAreInOrder ==
  /\ IF store.filterMode
     THEN Visible(store) = Source
     ELSE /\ Visible(store) = [i \in DOMAIN Source |-> i - 1]
          /\ \A i \in Index : HasResult(store.results, i) <=> i \in DOMAIN given
  /\ DOMAIN store.pending \cap 0..store.insertIndex = {}

\* What a watcher that has taken its events has announced.
EveryResultIsAnnounced ==
  /\ worker \notin {"throwing", "threw"} /\ "Canceled" \notin state
  /\ watcher # "none" /\ ~left /\ ReadyIn(posted) = 0
  => /\ 0..store.resultCount - 1 \subseteq heard
     /\ \A i \in heard : HasResult(store.results, i)

\* What a watcher that takes its events knows of those to come.
ThrottleEnds ==
  watcher # "none" /\ ~left /\ "Canceled" \notin state
  => /\ pending = ReadyIn(posted)
     /\ watcher = "idle" /\ pending = 0 => "Throttled" \notin state

\* A watcher that has taken its events has announced every result that can be
\* read, those of before it connected included, and none that is not there; its
\* count of pending events is right, and a future is not left throttled when
\* none is pending.
WatcherIsTold == EveryResultIsAnnounced /\ ThrottleEnds

\* After "Suspended" has been announced no result appears before the future is
\* resumed or cancelled.
SuspendedIsQuiet ==
  [][worker = "paused" /\ state' \cap Paused # {} => worker' = "paused" /\ store' = store]_vars

\* Readers see a sequence that only grows until it is closed.
Stream == INSTANCE ResultStream WITH out <- Visible(store), closed <- state \cap Over # {}
IsResultStream == Stream!Spec

\* A future that was cancelled before it started stays Pending.
LeftPending == {"Pending", "Finished"} \subseteq state

\* Every waiter returns in the end, except one that waits for results of a
\* future that is left Pending.
WaitersReturn ==
  \A t \in Waiter : waiter[t].at # "out" ~>
    waiter[t].at = "out" \/ (LeftPending /\ waiter[t].goal # Finish)
=============================================================================
