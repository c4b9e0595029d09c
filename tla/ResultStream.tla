---------------------------- MODULE ResultStream ----------------------------
(***************************************************************************)
(* What a future promises to whoever reads its results: a sequence that    *)
(* grows at its end until the computation is cancelled or finished, and    *)
(* which only an exception takes away, all of it at once.                  *)
(***************************************************************************)
EXTENDS Sequences, SequencesExt

VARIABLES
  out,    \* the results that can be read without a gap
  closed  \* no more will come

Init == out = <<>> /\ closed = FALSE

Grow == ~closed /\ ~closed' /\ IsPrefix(out, out')

Close == out' = out /\ closed'

Fail == out' = <<>> /\ (closed => closed')

Spec == Init /\ [][Grow \/ Close \/ Fail]_<<out, closed>>
=============================================================================
