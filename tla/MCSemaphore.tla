---------------------------- MODULE MCSemaphore -----------------------------
(* Small instances of the semaphore. *)
EXTENDS Semaphore, TLC

MCAmounts == {1, 2}
MCReleases == {0, 1, 2}
MCSymmetry == Permutations(Acquirer) \cup Permutations(Releaser)
=============================================================================
