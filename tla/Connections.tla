----------------------------- MODULE Connections -----------------------------
(***************************************************************************)
(* The connections of one signal of one object: connect, disconnect,       *)
(* emission and destruction, corelib/kernel/qobject.cpp and qobject_p_p.h. *)
(*                                                                         *)
(* The list of connections changes under the mutexes of sender and         *)
(* receiver, one step each; an emission walks it without a mutex, calls    *)
(* the slots of receivers of its own thread and posts to the others.       *)
(* Slots emit, connect, disconnect and destroy in their turn.              *)
(***************************************************************************)
EXTENDS Naturals, SequencesExt, FiniteSetsExt

CONSTANTS
  Thread,
  Receiver,
  Sender,
  thread,          \* the thread of each object
  MaxConnections,  \* bound: connections made
  MaxDepth         \* bound, per thread: calls inside one another

None == 0
Nobody == "nobody"

ConnectionsAssumption ==
  /\ IsFiniteSet(Thread)
  /\ Sender \notin Receiver /\ Nobody \notin Receiver \cup {Sender}
  /\ MaxConnections \in Nat

VARIABLES
  first, last,          \* ConnectionList
  conn,                 \* the connections, numbered by their id
  orphaned,             \* ConnectionData::orphaned
  freed,                \* connections that have been freed
  currentConnectionId,  \* ConnectionData::currentConnectionId
  ref,                  \* ConnectionData::ref
  alive,                \* objects
  stack,                \* per thread: its calls
  shots,                \* history: per connection, how often it was claimed
  late                  \* history: connections that posted to an object that was gone

list == <<first, last, conn>>
memory == <<orphaned, freed, ref>>
history == <<shots, late>>
vars == <<list, memory, currentConnectionId, alive, stack, history>>

Init ==
  /\ first = None /\ last = None /\ conn = <<>>
  /\ orphaned = {} /\ freed = {}
  /\ currentConnectionId = 0 /\ ref = 1
  /\ alive = Receiver \cup {Sender}
  /\ stack = [t \in Thread |-> <<>>]
  /\ shots = [c \in 1..MaxConnections |-> 0] /\ late = {}

-----------------------------------------------------------------------------
\* Calls.  "highest" is highestConnectionId; "known" and "called" are history,
\* the connections there when the emission began and those it has called.
Emission(highest) ==
  [call |-> "emit", at |-> "first", cur |-> None, to |-> Nobody, highest |-> highest,
   known |-> {}, called |-> {}]
Disconnection(r, c) == [call |-> "disconnect", at |-> "see", cur |-> c, to |-> r, success |-> FALSE]
Destruction(o) == [call |-> "destroy", at |-> "lists", of |-> o]

Top(t) == Last(stack[t])
At(t, call, at) == stack[t] # <<>> /\ Top(t).call = call /\ Top(t).at = at
SetTop(t, f) == stack' = [stack EXCEPT ![t] = Append(Front(@), f)]
Goes(t, at) == SetTop(t, [Top(t) EXCEPT !.at = at])
Advances(t, f) == SetTop(t, [f EXCEPT !.at = "advance", !.to = Nobody])
Returns(t) == stack' = [stack EXCEPT ![t] = Front(@)]

\* Outside any call, or in a slot.
Ready(t) == stack[t] = <<>> \/ At(t, "emit", "slot")
Calls(t, f) == Ready(t) /\ Len(stack[t]) < MaxDepth[t] /\ stack' = [stack EXCEPT ![t] = Append(@, f)]

Frames == UNION {ToSet(stack[t]) : t \in Thread}
Dying == {f.of : f \in {g \in Frames : g.call = "destroy"}}

\* The mutex of the sender, which a disconnection keeps while it walks.
Unlocked(t) == \A u \in Thread \ {t} : ~At(u, "disconnect", "see")

-----------------------------------------------------------------------------
\* connect
Connect(t, r, single) ==
  LET c == Len(conn) + 1
      new == [receiver |-> r, single |-> single, next |-> None, prev |-> last]
  IN  /\ Ready(t) /\ Unlocked(t)
      /\ {r, Sender} \subseteq alive \ Dying
      /\ Len(conn) < MaxConnections
      /\ conn' = Append([k \in DOMAIN conn |-> IF k = last THEN [conn[k] EXCEPT !.next = c] ELSE conn[k]], new)
      /\ first' = IF last = None THEN c ELSE first
      /\ last' = c
      /\ currentConnectionId' = currentConnectionId + 1
      /\ UNCHANGED <<memory, alive, stack, history>>

\* Fault: the link of a removed connection to the next is cleared.
RemoveAndUnlink(c) ==
  LET n == conn[c].next
      p == conn[c].prev
  IN  /\ conn' = [k \in DOMAIN conn |->
                    CASE k = c -> [conn[k] EXCEPT !.receiver = Nobody, !.prev = None, !.next = None]
                      [] k = n -> [conn[k] EXCEPT !.prev = p]
                      [] k = p -> [conn[k] EXCEPT !.next = n]
                      [] OTHER -> conn[k]]
      /\ first' = IF first = c THEN n ELSE first
      /\ last' = IF last = c THEN p ELSE last

\* ConnectionData::removeConnection: an emission may still be at c, and goes on
\* from it.
RemoveConnection(c) ==
  LET n == conn[c].next
      p == conn[c].prev
  IN  /\ conn' = [k \in DOMAIN conn |->
                    CASE k = c -> [conn[k] EXCEPT !.receiver = Nobody, !.prev = None]
                      [] k = n -> [conn[k] EXCEPT !.prev = p]
                      [] k = p -> [conn[k] EXCEPT !.next = n]
                      [] OTHER -> conn[k]]
      /\ first' = IF first = c THEN n ELSE first
      /\ last' = IF last = c THEN p ELSE last

\* Fault: orphans are freed although somebody walks the list.
CleanAlways(o) == orphaned' = {} /\ freed' = freed \cup o

\* cleanOrphanedConnections, o being the orphans by now
Clean(o) ==
  IF ref = 1 THEN orphaned' = {} /\ freed' = freed \cup o
  ELSE orphaned' = o /\ UNCHANGED freed

\* What holds a reference to the ConnectionData gives it back; the last one
\* deletes it.
Deref ==
  /\ ref' = ref - 1
  /\ IF ref = 1 THEN orphaned' = {} /\ freed' = freed \cup orphaned ELSE UNCHANGED <<orphaned, freed>>

\* disconnect with the handle of a connection
Disconnect(t, c) ==
  /\ Ready(t) /\ Unlocked(t)
  /\ conn[c].receiver # Nobody
  /\ RemoveConnection(c)
  /\ Clean(orphaned \cup {c})
  /\ UNCHANGED <<ref, currentConnectionId, alive, stack, history>>

-----------------------------------------------------------------------------
\* disconnect of all connections to r: the mutex may be released before each is
\* removed, to take that of the receiver before it.
DisconnectReceiver(t, r) ==
  /\ Unlocked(t) /\ Sender \in alive \ Dying
  /\ Calls(t, Disconnection(r, first))
  /\ ref' = ref + 1
  /\ UNCHANGED <<list, orphaned, freed, currentConnectionId, alive, history>>

See(t) ==
  /\ At(t, "disconnect", "see") /\ Top(t).cur # None
  /\ LET f == Top(t)
     IN  SetTop(t, IF conn[f.cur].receiver = f.to THEN [f EXCEPT !.at = "remove"]
                   ELSE [f EXCEPT !.cur = conn[f.cur].next])
  /\ UNCHANGED <<list, memory, currentConnectionId, alive, history>>

RemoveSeen(t) ==
  /\ At(t, "disconnect", "remove") /\ Unlocked(t)
  /\ LET f == Top(t)
     IN  /\ IF conn[f.cur].receiver # Nobody
            THEN RemoveConnection(f.cur) /\ orphaned' = orphaned \cup {f.cur}
            ELSE UNCHANGED <<list, orphaned>>
         /\ SetTop(t, [f EXCEPT !.at = "see", !.cur = conn[f.cur].next, !.success = TRUE])
  /\ UNCHANGED <<freed, ref, currentConnectionId, alive, history>>

SeenAll(t) ==
  /\ At(t, "disconnect", "see") /\ Top(t).cur = None
  /\ IF Top(t).success THEN Goes(t, "clean") ELSE Returns(t)
  /\ Deref
  /\ UNCHANGED <<list, currentConnectionId, alive, history>>

-----------------------------------------------------------------------------
\* doActivate, of a signal that may be connected
Emit(t) ==
  /\ Sender \in alive \ Dying /\ first # None
  /\ Calls(t, Emission(currentConnectionId))
  /\ ref' = ref + 1
  /\ UNCHANGED <<list, orphaned, freed, currentConnectionId, alive, history>>

First(t) ==
  /\ At(t, "emit", "first")
  /\ SetTop(t, [Top(t) EXCEPT !.cur = first, !.at = IF first = None THEN "end" ELSE "visit",
                              !.known = {c \in DOMAIN conn : conn[c].receiver # Nobody}])
  /\ UNCHANGED <<list, memory, currentConnectionId, alive, history>>

Called(f) == [f EXCEPT !.called = @ \cup {f.cur}]

\* A receiver of another thread gets an event; a connection for a single shot
\* has to be claimed, by removing it.
Visit(t) ==
  /\ At(t, "emit", "visit")
  /\ LET f == Top(t)
         r == conn[f.cur].receiver
     IN  SetTop(t, IF r = Nobody THEN [f EXCEPT !.at = "advance"]
                   ELSE IF thread[r] # t THEN [f EXCEPT !.at = "queue", !.to = r]
                   ELSE IF conn[f.cur].single THEN [f EXCEPT !.at = "claim", !.to = r]
                   ELSE [Called(f) EXCEPT !.at = "slot", !.to = r])
  /\ UNCHANGED <<list, memory, currentConnectionId, alive, history>>

\* QObjectPrivate::removeConnection, which one caller gets to do
Claim(t) ==
  /\ At(t, "emit", "claim") /\ Unlocked(t)
  /\ LET f == Top(t)
     IN  IF conn[f.cur].receiver = Nobody
         THEN Advances(t, Top(t)) /\ UNCHANGED <<list, orphaned, freed, shots>>
         ELSE /\ RemoveConnection(f.cur)
              /\ shots' = [shots EXCEPT ![f.cur] = @ + 1]
              /\ Clean(orphaned \cup {f.cur})
              /\ SetTop(t, IF thread[f.to] = t THEN [Called(f) EXCEPT !.at = "slot"]
                           ELSE [f EXCEPT !.at = "post"])
  /\ UNCHANGED <<ref, currentConnectionId, alive, late>>

\* queued_activate takes the mutex of the receiver twice.
Queue(t) ==
  /\ At(t, "emit", "queue")
  /\ LET c == Top(t).cur
     IN  IF conn[c].receiver = Nobody THEN Advances(t, Top(t))
         ELSE Goes(t, IF conn[c].single THEN "claim" ELSE "post")
  /\ UNCHANGED <<list, memory, currentConnectionId, alive, history>>

Post(t) ==
  /\ At(t, "emit", "post")
  /\ LET f == Top(t)
     IN  IF ~conn[f.cur].single /\ conn[f.cur].receiver = Nobody
         THEN Advances(t, Top(t)) /\ UNCHANGED late
         ELSE /\ Advances(t, Called(f))
              /\ late' = IF f.to \in alive THEN late ELSE late \cup {f.cur}
  /\ UNCHANGED <<list, memory, currentConnectionId, alive, shots>>

SlotReturns(t) ==
  /\ At(t, "emit", "slot")
  /\ Advances(t, Top(t))
  /\ UNCHANGED <<list, memory, currentConnectionId, alive, history>>

Advance(t) ==
  /\ At(t, "emit", "advance")
  /\ LET f == Top(t)
         n == conn[f.cur].next
     IN  SetTop(t, IF n = None \/ n > f.highest THEN [f EXCEPT !.at = "end", !.cur = None]
                   ELSE [f EXCEPT !.at = "visit", !.cur = n])
  /\ UNCHANGED <<list, memory, currentConnectionId, alive, history>>

\* The sender may have been destroyed by a slot: its ConnectionData says so.
EmitEnd(t) ==
  /\ At(t, "emit", "end")
  /\ IF currentConnectionId = 0 THEN Returns(t) ELSE Goes(t, "clean")
  /\ Deref
  /\ UNCHANGED <<list, currentConnectionId, alive, history>>

\* cleanOrphanedConnections at the end of an emission or a disconnection
CleanUp(t) ==
  /\ At(t, "emit", "clean") \/ At(t, "disconnect", "clean")
  /\ Unlocked(t)
  /\ Clean(orphaned)
  /\ Returns(t)
  /\ UNCHANGED <<list, ref, currentConnectionId, alive, history>>

-----------------------------------------------------------------------------
\* ~QObject, in the thread of the object; that nobody else uses a sender any
\* more is for its owner to see to.
Destroy(t, o) ==
  /\ thread[o] = t /\ o \in alive \ Dying
  /\ o = Sender => \A u \in Thread \ {t} : stack[u] = <<>>
  /\ Calls(t, Destruction(o))
  /\ UNCHANGED <<list, memory, currentConnectionId, alive, history>>

\* The receiver disconnects its senders, the last connection first.
DisconnectSender(t) ==
  /\ At(t, "destroy", "lists") /\ Top(t).of # Sender /\ Unlocked(t)
  /\ LET r == Top(t).of
         mine == {c \in DOMAIN conn : conn[c].receiver = r}
     IN  IF mine # {}
         THEN /\ RemoveConnection(Max(mine))
              /\ Clean(orphaned \cup {Max(mine)})
              /\ UNCHANGED <<alive, stack>>
         ELSE /\ alive' = alive \ {r}
              /\ Returns(t)
              /\ UNCHANGED <<list, orphaned, freed>>
  /\ UNCHANGED <<ref, currentConnectionId, history>>

\* The sender disconnects its receivers, marks its ConnectionData and lets go
\* of it.
DisconnectReceivers(t) ==
  /\ At(t, "destroy", "lists") /\ Top(t).of = Sender /\ Unlocked(t)
  /\ IF first # None
     THEN /\ RemoveConnection(first)
          /\ orphaned' = orphaned \cup {first}
          /\ UNCHANGED <<freed, ref, currentConnectionId, alive, stack>>
     ELSE /\ currentConnectionId' = 0
          /\ alive' = alive \ {Sender}
          /\ Deref
          /\ Returns(t)
          /\ UNCHANGED list
  /\ UNCHANGED history

-----------------------------------------------------------------------------
Activate(t) ==
  \/ First(t) \/ Visit(t) \/ Claim(t) \/ Queue(t) \/ Post(t) \/ SlotReturns(t) \/ Advance(t)
  \/ EmitEnd(t)

Next ==
  \E t \in Thread :
    \/ Emit(t) \/ Activate(t) \/ CleanUp(t)
    \/ \E r \in Receiver : DisconnectReceiver(t, r) \/ \E single \in BOOLEAN : Connect(t, r, single)
    \/ \E c \in DOMAIN conn : Disconnect(t, c)
    \/ See(t) \/ RemoveSeen(t) \/ SeenAll(t)
    \/ \E o \in Receiver \cup {Sender} : Destroy(t, o)
    \/ DisconnectSender(t) \/ DisconnectReceivers(t)

Spec == Init /\ [][Next]_vars

-----------------------------------------------------------------------------
Connected == {c \in DOMAIN conn : conn[c].receiver # Nobody}

\* The ends of S, or None if there are none.
IsLeast(n, S) == IF S = {} THEN n = None ELSE n \in S /\ \A m \in S : n <= m
IsGreatest(n, S) == IF S = {} THEN n = None ELSE n \in S /\ \A m \in S : n >= m

\* The list links the connections in the order they were made, both ways, and
\* their receivers are there.
ListIsLinked ==
  /\ IsLeast(first, Connected) /\ IsGreatest(last, Connected)
  /\ \A c \in Connected :
       /\ IsLeast(conn[c].next, {k \in Connected : k > c})
       /\ IsGreatest(conn[c].prev, {k \in Connected : k < c})
       /\ conn[c].receiver \in alive
  /\ orphaned \cup freed = DOMAIN conn \ Connected /\ orphaned \cap freed = {}

\* Whoever walks the list stands on a connection that has not been freed, and
\* so is the next one, however many have been removed since; and an emission
\* whose sender was destroyed by a slot does not touch it.
NothingFreedIsUsed ==
  /\ ListIsLinked
  /\ \A f \in Frames :
       /\ f.call # "destroy" /\ f.cur # None => {f.cur, conn[f.cur].next} \cap freed = {}
       /\ f.call = "emit" /\ f.at = "clean" => Sender \in alive

\* An emission calls, or posts to, every connection that was there when it began
\* and is there when it ends, whatever slots and other threads connect,
\* disconnect and destroy meanwhile; and none that was made later.  A single
\* shot is fired once.  Nothing is posted to an object that is gone, unless by
\* a single shot.
EmissionsAreExact ==
  /\ \A f \in Frames : f.call = "emit" /\ f.at \in {"end", "clean"} =>
       {c \in f.known \cap Connected : c <= f.highest} \subseteq f.called /\ f.called \subseteq f.known
  /\ \A c \in DOMAIN conn : shots[c] <= 1
  /\ \A c \in late : conn[c].single
=============================================================================
