------------------------- MODULE PermissionManager -------------------------
(***************************************************************************)
(* Interaction locks of the Go kernel (internal/kernel/permission_manager  *)
(* .go): a concurrent map from targets to the devices that hold them.      *)
(* TryLock is one operation of the map; Unlock loads the entry and deletes *)
(* it in another.                                                          *)
(***************************************************************************)
CONSTANTS
  Client,    \* goroutines that call
  Target,    \* what is locked
  NoDevice,  \* no entry in the map
  deviceID   \* the device a goroutine calls for; several may call for one

\* No entry is neither a device nor a target.
PermissionAssumption ==
  /\ \A g \in Client : deviceID[g] # NoDevice
  /\ NoDevice \notin Target

VARIABLES
  locks,     \* per target: the device that has it, or NoDevice
  deleting,  \* per goroutine: the target its Unlock is about to delete, or NoDevice
  crossed,   \* history: goroutines whose Unlock was crossed before its Delete
  held       \* history: <<device, target>> granted, until its Unlock or a crossed Delete

vars == <<locks, deleting, crossed, held>>

Init ==
  /\ locks = [t \in Target |-> NoDevice]
  /\ deleting = [g \in Client |-> NoDevice]
  /\ crossed = {}
  /\ held = {}

Mine(g, t) == locks[t] = deviceID[g]

\* The Unlocks of t that are between their load and their Delete.
Unlocking(t) == {g \in Client : deleting[g] = t}

\* Those of g's own device: a call of g for t crosses them.
Crossing(g, t) == {h \in Unlocking(t) : deviceID[h] = deviceID[g]}

TryLock(g, t) ==
  /\ deleting[g] = NoDevice
  /\ locks' = IF locks[t] = NoDevice THEN [locks EXCEPT ![t] = deviceID[g]] ELSE locks
  /\ held' = IF locks[t] = NoDevice \/ Mine(g, t) THEN held \cup {<<deviceID[g], t>>}
             ELSE held
  /\ crossed' = crossed \cup Crossing(g, t)
  /\ UNCHANGED deleting

\* Fault: Unlock does not ask who holds the target.
UnlockAny(g, t) ==
  /\ deleting[g] = NoDevice
  /\ deleting' = [deleting EXCEPT ![g] = t]
  /\ held' = held \ {<<deviceID[g], t>>}
  /\ UNCHANGED <<locks, crossed>>

\* Unlock loads the entry and compares.  Two Unlocks cross each other.
Unlock(g, t) ==
  /\ deleting[g] = NoDevice
  /\ deleting' = IF Mine(g, t) THEN [deleting EXCEPT ![g] = t] ELSE deleting
  /\ held' = held \ {<<deviceID[g], t>>}
  /\ crossed' = crossed \cup Crossing(g, t)
                        \cup {h \in {g} : Mine(g, t) /\ Crossing(g, t) # {}}
  /\ UNCHANGED locks

\* It deletes the entry that is there by now.  If it was crossed, that may be
\* another's; and it crosses every Unlock that still counts on the entry.
Delete(g) ==
  LET t == deleting[g]
  IN  /\ t # NoDevice
      /\ locks' = [locks EXCEPT ![t] = NoDevice]
      /\ deleting' = [deleting EXCEPT ![g] = NoDevice]
      /\ held' = {p \in held : ~(g \in crossed /\ p[2] = t)}
      /\ crossed' = (crossed \cup {h \in Unlocking(t) : g \in crossed}) \ {g}

Next == \E g \in Client : Delete(g) \/ \E t \in Target : TryLock(g, t) \/ Unlock(g, t)

Spec == Init /\ [][Next]_vars

-----------------------------------------------------------------------------
\* What TryLock granted stays the device's until the device calls Unlock, so that no
\* two devices hold a target.  Unlock compares and deletes in two steps: the grant
\* can be lost, also by a device that did nothing wrong, but only to the Delete of
\* an Unlock that was crossed by another call of its own device for the target, or
\* by the Delete of such an Unlock.  Calls of different devices never disturb one
\* another, however late a Delete comes.
GrantedIsKept == \A p \in held : locks[p[2]] = p[1]
=============================================================================
