----------------------------- MODULE UndoStack -----------------------------
(***************************************************************************)
(* The multi-user history of the Go kernel (internal/kernel/undo_stack.go).*)
(* Push keeps the last Limit actions; Undo finds the latest of its user,   *)
(* runs the action's own Undo and moves it to the redo pool.  Both hold    *)
(* the mutex throughout, Undo also while the action runs, which therefore  *)
(* must not call the stack (the mutex is not recursive).                   *)
(***************************************************************************)
EXTENDS Naturals, Sequences, FiniteSets, SequencesExt, FiniteSetsExt

CONSTANTS
  User,       \* users, each on a goroutine of its own
  Limit,      \* of the history, 500 in the code
  MaxActions  \* bound: actions pushed

VARIABLES
  actions,   \* the ledger: [id, user]
  redoPool,  \* actions undone
  mu,        \* the user whose call holds the mutex, or none
  at,        \* index in the ledger of the action that mu's Undo runs
  pushed,    \* number of actions pushed
  reverted   \* history: how often the Undo of an action ran

vars == <<actions, redoPool, mu, at, pushed, reverted>>

Free == "free"

Init ==
  /\ actions = <<>> /\ redoPool = <<>>
  /\ mu = Free /\ at = 0 /\ pushed = 0
  /\ reverted = [i \in 1..MaxActions |-> 0]

Trimmed(s) == IF Len(s) > Limit THEN Tail(s) ELSE s

Push(u) ==
  /\ mu = Free /\ pushed < MaxActions
  /\ pushed' = pushed + 1
  /\ actions' = Trimmed(Append(actions, [id |-> pushed + 1, user |-> u]))
  /\ UNCHANGED <<redoPool, mu, at, reverted>>

Own(u) == {i \in DOMAIN actions : actions[i].user = u}

\* Fault: the mutex is released while the action runs.
UndoUnlocked(u) ==
  /\ mu = Free /\ at = 0 /\ Own(u) # {}
  /\ at' = Max(Own(u))
  /\ reverted' = [reverted EXCEPT ![actions[Max(Own(u))].id] = @ + 1]
  /\ UNCHANGED <<actions, redoPool, mu, pushed>>

\* Undo finds the action and runs it; without one it returns.
Undo(u) ==
  /\ mu = Free /\ Own(u) # {}
  /\ mu' = u /\ at' = Max(Own(u))
  /\ reverted' = [reverted EXCEPT ![actions[Max(Own(u))].id] = @ + 1]
  /\ UNCHANGED <<actions, redoPool, pushed>>

\* The action has run: it goes to the redo pool.
Undone ==
  /\ at # 0
  /\ redoPool' = Append(redoPool, actions[at])
  /\ actions' = RemoveAt(actions, at)
  /\ mu' = Free /\ at' = 0
  /\ UNCHANGED <<pushed, reverted>>

Next == (\E u \in User : Push(u) \/ Undo(u)) \/ Undone

Spec == Init /\ [][Next]_vars

-----------------------------------------------------------------------------
\* The Undo of an action runs once, and of exactly those that are in the redo
\* pool, but for the one that runs now: with other users pushing, undoing and
\* pushing old actions out, none is undone twice, skipped, or kept for another.
UndoneOnce ==
  LET redo(i) == Cardinality({j \in DOMAIN redoPool : redoPool[j].id = i})
      runs(i) == IF at # 0 /\ actions[at].id = i THEN 1 ELSE 0
  IN \A i \in 1..pushed : /\ reverted[i] = redo(i) + runs(i)
                          /\ reverted[i] <= 1
                          /\ redo(i) = 1 => \A j \in DOMAIN actions : actions[j].id # i
=============================================================================
