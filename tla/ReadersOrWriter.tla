-------------------------- MODULE ReadersOrWriter --------------------------
(***************************************************************************)
(* What a read-write lock promises to its callers: any number of readers   *)
(* or one writer.  Nothing is said of how a thread waits, of timeouts or   *)
(* of who comes first.                                                     *)
(***************************************************************************)
CONSTANT Thread

VARIABLES
  readers,  \* threads that hold the lock for reading
  writers   \* threads that hold the lock for writing

vars == <<readers, writers>>

Init == readers = {} /\ writers = {}

LockForRead(t) ==
  /\ writers = {} /\ t \notin readers
  /\ readers' = readers \cup {t}
  /\ UNCHANGED writers

LockForWrite(t) ==
  /\ writers = {} /\ readers = {}
  /\ writers' = {t}
  /\ UNCHANGED readers

Unlock(t) ==
  /\ t \in readers \cup writers
  /\ readers' = readers \ {t}
  /\ writers' = writers \ {t}

Next == \E t \in Thread : LockForRead(t) \/ LockForWrite(t) \/ Unlock(t)

Spec == Init /\ [][Next]_vars
=============================================================================
