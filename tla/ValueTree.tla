----------------------------- MODULE ValueTree -----------------------------
(***************************************************************************)
(* The global state of the Go port (internal/state/value_tree.go):         *)
(* SetParameter stores under the write lock, then sends the change to the  *)
(* channel of every subscriber under the read lock, which several          *)
(* goroutines may hold, and drops it where the channel is full.  The n-th  *)
(* write is the number n.                                                  *)
(***************************************************************************)
EXTENDS Naturals, Sequences, SequencesExt

CONSTANTS
  Caller,      \* goroutines that set parameters
  Key,         \* parameters
  Subscriber,  \* goroutines that subscribe
  Capacity,    \* of a channel, 100 in the code
  MaxWrites    \* bound: writes

VARIABLES
  params,     \* per key: the write it holds, 0 for none
  listeners,  \* subscribers in the order they came
  channel,    \* per subscriber: changes sent and not received
  set,        \* per goroutine: the SetParameter it is in
  writes,     \* number of writes
  since,      \* history, per subscriber: number of writes when it subscribed
  told,       \* history, per subscriber: writes that were sent to it
  dropped,    \* history, per subscriber: writes that found the channel full
  overlapped  \* history: writes stored while an earlier call was under way

vars == <<params, listeners, channel, set, writes, since, told, dropped, overlapped>>
history == <<since, told, dropped, overlapped>>

Out == [at |-> "out", write |-> 0, key |-> 0, rest |-> <<>>]

Init ==
  /\ params = [k \in Key |-> 0]
  /\ listeners = <<>>
  /\ channel = [s \in Subscriber |-> <<>>]
  /\ set = [c \in Caller |-> Out]
  /\ writes = 0
  /\ since = [s \in Subscriber |-> 0]
  /\ told = [s \in Subscriber |-> <<>>]
  /\ dropped = [s \in Subscriber |-> {}]
  /\ overlapped = {}

ReadLocked == \E c \in Caller : set[c].at = "send"
UnderWay == {set[c].write : c \in {d \in Caller : set[d].at # "out"}}

Store(c, k) ==
  /\ set[c].at = "out" /\ ~ReadLocked /\ writes < MaxWrites
  /\ writes' = writes + 1
  /\ params' = [params EXCEPT ![k] = writes + 1]
  /\ set' = [set EXCEPT ![c] = [Out EXCEPT !.at = "stored", !.write = writes + 1, !.key = k]]
  /\ overlapped' = IF UnderWay = {} THEN overlapped ELSE overlapped \cup {writes + 1}
  /\ UNCHANGED <<listeners, channel, since, told, dropped>>

Broadcast(c) ==
  /\ set[c].at = "stored"
  /\ set' = [set EXCEPT ![c].at = "send", ![c].rest = listeners]
  /\ UNCHANGED <<params, listeners, channel, writes, history>>

Deliver(s, n) ==
  IF Len(channel[s]) < Capacity
  THEN /\ channel' = [channel EXCEPT ![s] = Append(@, n)]
       /\ told' = [told EXCEPT ![s] = Append(@, n)]
       /\ UNCHANGED dropped
  ELSE /\ dropped' = [dropped EXCEPT ![s] = @ \cup {n}]
       /\ UNCHANGED <<channel, told>>

\* Fault: a full channel ends the loop over the listeners.
SendOrStop(c) ==
  LET s == Head(set[c].rest)
  IN /\ set[c].at = "send" /\ set[c].rest # <<>>
     /\ Deliver(s, set[c].write)
     /\ set' = [set EXCEPT ![c].rest = IF Len(channel[s]) < Capacity THEN Tail(@) ELSE <<>>]
     /\ UNCHANGED <<params, listeners, writes, since, overlapped>>

Send(c) ==
  /\ set[c].at = "send" /\ set[c].rest # <<>>
  /\ Deliver(Head(set[c].rest), set[c].write)
  /\ set' = [set EXCEPT ![c].rest = Tail(@)]
  /\ UNCHANGED <<params, listeners, writes, since, overlapped>>

Return(c) ==
  /\ set[c].at = "send" /\ set[c].rest = <<>>
  /\ set' = [set EXCEPT ![c] = Out]
  /\ UNCHANGED <<params, listeners, channel, writes, history>>

Subscribe(s) ==
  /\ ~Contains(listeners, s) /\ ~ReadLocked
  /\ listeners' = Append(listeners, s)
  /\ since' = [since EXCEPT ![s] = writes]
  /\ UNCHANGED <<params, channel, set, writes, told, dropped, overlapped>>

Receive(s) ==
  /\ channel[s] # <<>>
  /\ channel' = [channel EXCEPT ![s] = Tail(@)]
  /\ UNCHANGED <<params, listeners, set, writes, history>>

Next ==
  \/ \E c \in Caller : (\E k \in Key : Store(c, k)) \/ Broadcast(c) \/ Send(c) \/ Return(c)
  \/ \E s \in Subscriber : Subscribe(s) \/ Receive(s)

Spec == Init /\ [][Next]_vars

-----------------------------------------------------------------------------
\* Every write since a goroutine subscribed reaches its channel, and once, or
\* finds it full, when its SetParameter has returned; and changes are sent in
\* the order of the writes, except those of calls that overlapped.
SubscribersAreTold ==
  \A i \in DOMAIN listeners : LET s == listeners[i] IN
    /\ \A n \in since[s] + 1..writes :
         n \in UnderWay \cup ToSet(told[s]) \cup dropped[s]
    /\ \A a, b \in DOMAIN told[s] :
         a < b => told[s][a] < told[s][b] \/ (told[s][a] > told[s][b] /\ told[s][a] \in overlapped)
=============================================================================
