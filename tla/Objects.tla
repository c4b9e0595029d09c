------------------------------- MODULE Objects -------------------------------
(***************************************************************************)
(* What objects do with one another: the posted events of a thread, and    *)
(* the connections of a signal.  They share no state.                      *)
(***************************************************************************)
EXTENDS PostedEvents

CONSTANTS Thread, Listener, Sender, thread, MaxConnections, MaxDepth  \* Connections

VARIABLES first, last, conn, orphaned, freed, currentConnectionId, ref, alive, calls, shots, late

C == INSTANCE Connections WITH Receiver <- Listener, stack <- calls

ASSUME ObjectsAssumption == C!ConnectionsAssumption

connections ==
  <<first, last, conn, orphaned, freed, currentConnectionId, ref, alive, calls, shots, late>>

-----------------------------------------------------------------------------
\* Nobody who walks a list of connections stands on a freed one (qobject.cpp).
NothingFreedIsUsed == C!NothingFreedIsUsed

\* An emission calls the connections it should, and no other (qobject.cpp).
EmissionsAreExact == C!EmissionsAreExact
=============================================================================
