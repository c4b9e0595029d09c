------------------------------- MODULE MCLocks -------------------------------
(* The locks of the core library for three threads. *)
EXTENDS Locks

CONSTANTS t1, t2, t3

\* Two threads consume what the third one adds.
MCThread == {t1, t2, t3}
MCConsumer == {t1, t2}
MCProducer == MCThread \ MCConsumer
=============================================================================
