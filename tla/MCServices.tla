----------------------------- MODULE MCServices -----------------------------
(* The services of the Go program on small instances. *)
EXTENDS Services

\* Two goroutines call the permission manager for one device, the others for another.
MCDevice == [c \in Client |-> IF c \in Caller THEN "d1" ELSE "d2"]

\* A tempo, none, and a mistaken one.
MCBpm == {-1, 0, 120}
=============================================================================
