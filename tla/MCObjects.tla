------------------------------ MODULE MCObjects ------------------------------
(* Small instances of what objects do with one another.  Every behaviour is  *)
(* one of its "subject", while the others stay as they began.                *)
EXTENDS Objects, TLC

VARIABLE subject

MCPriority == {0, 1}
MCSymmetry == Permutations(Receiver)

\* Thread b has receiver y; sender and receiver x are in thread a.
MCThreadOf == [o \in {"s", "x", "y"} |-> IF o = "y" THEN "b" ELSE "a"]

\* Two connections, slots that emit and disconnect, and another thread that does.
MCDepth == [a |-> 2, b |-> 1]

\* Three, while the other thread connects and disconnects one at a time.
D == INSTANCE Connections WITH
  Receiver <- Listener, MaxConnections <- 3, MaxDepth <- [a |-> 2, b |-> 0], stack <- calls

AnyInit ==
  /\ subject \in {"events", "two", "three"}
  /\ Init
  /\ IF subject = "three" THEN D!Init ELSE C!Init

AnyNext ==
  /\ UNCHANGED subject
  /\ \/ subject = "events" /\ Next /\ UNCHANGED connections
     \/ subject = "two" /\ C!Next /\ UNCHANGED vars
     \/ subject = "three" /\ D!Next /\ UNCHANGED vars

AnySpec == AnyInit /\ [][AnyNext]_<<subject, vars, connections>>
=============================================================================
