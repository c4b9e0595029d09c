--------------------------- MODULE MCPostedEvents ---------------------------
(* Small instances of the posted events and loops of a thread. *)
EXTENDS PostedEvents, TLC

MCPriority == {0, 1}
MCSymmetry == Permutations(Receiver)
=============================================================================
