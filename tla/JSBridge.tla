------------------------------ MODULE JSBridge ------------------------------
(***************************************************************************)
(* The script bridge of the web view (internal/ui/widgets/webview.go) on   *)
(* its one goroutine.  PostMessage, EvalJS and Request queue a message,    *)
(* tell OnMessage, and with AutoDispatch pump: Pump copies and empties the *)
(* queue and gives the copy to the handlers.  OnMessage and the handlers   *)
(* may send and pump in their turn, so calls nest: "calls" is the stack.   *)
(***************************************************************************)
EXTENDS Naturals, Sequences, FiniteSets, SequencesExt

CONSTANTS MaxMessages, MaxDepth  \* bounds: messages sent, calls that nest

VARIABLES
  nextID,        \* number of messages
  Queue,
  AutoDispatch,
  calls,         \* calls under way, the innermost first
  dispatched     \* history: messages given to their handlers, in order

vars == <<nextID, Queue, AutoDispatch, calls, dispatched>>

Nothing == 0
Sending(id) == [at |-> "OnMessage", id |-> id, copy |-> <<>>]
Pumping == [at |-> "Pump", id |-> Nothing, copy |-> Queue]

Init ==
  /\ nextID = 0 /\ Queue = <<>> /\ AutoDispatch = TRUE
  /\ calls = <<>> /\ dispatched = <<>>

Top == Head(calls)
At(place) == calls # <<>> /\ Top.at = place

\* The page or the host runs: outside of every call, in OnMessage, or in the
\* handler of a message.
UserCode == calls = <<>> \/ At("OnMessage") \/ (At("Pump") /\ Top.id # Nothing)
Room == Len(calls) < MaxDepth

Send ==
  /\ UserCode /\ Room /\ nextID < MaxMessages
  /\ nextID' = nextID + 1
  /\ Queue' = Append(Queue, nextID + 1)
  /\ calls' = <<Sending(nextID + 1)>> \o calls
  /\ UNCHANGED <<AutoDispatch, dispatched>>

SetAutoDispatch ==
  /\ UserCode
  /\ AutoDispatch' = ~AutoDispatch
  /\ UNCHANGED <<nextID, Queue, calls, dispatched>>

\* Fault: the queue is copied and not emptied.
Keeps == UNCHANGED Queue
Emptied == Queue' = <<>>

PumpRuntime ==
  /\ UserCode /\ Room /\ Queue # <<>>
  /\ Emptied
  /\ calls' = <<Pumping>> \o calls
  /\ UNCHANGED <<nextID, AutoDispatch, dispatched>>

\* maybePumpBridge, with nothing left to do for the sender but to look for its
\* reply among those of the Pump
OnMessageReturns ==
  /\ At("OnMessage")
  /\ IF AutoDispatch /\ Queue # <<>>
     THEN calls' = <<Pumping>> \o Tail(calls) /\ Emptied
     ELSE calls' = Tail(calls) /\ UNCHANGED Queue
  /\ UNCHANGED <<nextID, AutoDispatch, dispatched>>

\* DispatchMessage: the handler of the next message of the copy
Dispatch ==
  /\ At("Pump") /\ Top.id = Nothing /\ Top.copy # <<>>
  /\ calls' = <<[Top EXCEPT !.id = Head(Top.copy), !.copy = Tail(Top.copy)]>> \o Tail(calls)
  /\ dispatched' = Append(dispatched, Head(Top.copy))
  /\ UNCHANGED <<nextID, Queue, AutoDispatch>>

HandlerReturns ==
  /\ At("Pump") /\ Top.id # Nothing
  /\ calls' = <<[Top EXCEPT !.id = Nothing]>> \o Tail(calls)
  /\ UNCHANGED <<nextID, Queue, AutoDispatch, dispatched>>

PumpReturns ==
  /\ At("Pump") /\ Top.id = Nothing /\ Top.copy = <<>>
  /\ calls' = Tail(calls)
  /\ UNCHANGED <<nextID, Queue, AutoDispatch, dispatched>>

Next ==
  \/ Send \/ SetAutoDispatch \/ PumpRuntime
  \/ OnMessageReturns \/ Dispatch \/ HandlerReturns \/ PumpReturns

Spec == Init /\ [][Next]_vars

-----------------------------------------------------------------------------
\* However pumps nest and whenever AutoDispatch is switched, no message is lost
\* or handled twice, and one overtakes another only by being sent and pumped
\* while a Pump has the other: what waits is in order, outer copies first, then
\* inner ones, then the queue, and with what was dispatched it is every message.
EveryMessageOnce ==
  LET waiting == FlattenSeq(Reverse([i \in DOMAIN calls |-> calls[i].copy])) \o Queue
  IN /\ \A i, j \in DOMAIN waiting : i < j => waiting[i] < waiting[j]
     /\ ToSet(waiting) \cup ToSet(dispatched) = 1..nextID
     /\ Len(waiting) + Len(dispatched) = nextID
=============================================================================
